---- MODULE Spec2Model ----
(***************************************************************************)
(* The extent writer / extent reader pipelines of the CubeFS kernel        *)
(* client (client_kernel/cfs_extent_writer.c, cfs_extent_reader.c).        *)
(*                                                                         *)
(* One extent stream is modelled.  It owns either a set of writers (the    *)
(* write path) or one reader (the read path): the two pipelines share no   *)
(* field in the source, so a behaviour explores one of them, chosen in     *)
(* Init by `kind`.  Threads: the submitting caller, the flushing caller,   *)
(* and per writer/reader the tx work item and the rx work item.  A work    *)
(* item never runs concurrently with itself; different work items do.      *)
(* Every access to a shared field that the source makes without a lock     *)
(* is a step of its own, and `flags |= X` is a load and a store.           *)
(***************************************************************************)
EXTENDS Integers, Sequences, FiniteSets, TLC

\* ------------------------------------------------------------- bounds ----
\* Packets the caller submits in one behaviour.
MaxPackets == 2
\* Writers the stream holds before any recovery (each counted in nr_writers).
NumWriters == 2
\* Data partitions cfs_extent_id_new can hand out.
NumDP == 1
\* Members (replicas) of the reader's data partition, dp->members.num.
ReplicaCount == 2

\* REQUEST_RETRY_MAX is defined in cfs_extent.h, which is not part of the
\* sources at hand; the model is parametric in it and uses a small value.
REQUEST_RETRY_MAX == 1

\* es->max_writers is set when the stream is created: room for the first
\* writers and for every recovery writer one packet can ask for.
MaxWritersChoices == {NumWriters + REQUEST_RETRY_MAX + 1}
\* Identities for writer objects: the largest cap plus the overshoot that
\* concurrent recoveries can produce.
MaxWid == NumWriters + REQUEST_RETRY_MAX + 1 + MaxPackets

WIDs == 1 .. MaxWid
PIDs == 1 .. MaxPackets
DataPartitions == 1 .. NumDP
NULL == 0

\* writer->flags / reader->flags bits.
F_RECOVER == "RECOVER"
F_ERROR == "ERROR"

\* errno values (0 is "OK").
OK == "OK"
EIO == "EIO"
EPERM == "EPERM"
ENOMEM == "ENOMEM"
\* Errors cfs_extent_id_new can return.
ExtentIdNewErrors == {"ENOSPC"}
\* Byte counts of one request (in blocks).
PacketSizes == {1}

VARIABLES
    kind,          \* "writer" | "reader": which pipeline this stream runs
    max_writers,   \* es->max_writers
    nr_writers,    \* es->nr_writers
    created,       \* number of writer/reader objects allocated so far
    flags,         \* [WIDs -> SUBSET {RECOVER, ERROR}]
    recover,       \* [WIDs -> WIDs \cup {NULL}]  writer->recover / reader->recover
    wr,            \* [WIDs -> [file_offset, dp, ext_id, ext_offset, ext_size,
                   \*           w_size, dirty, host_idx]]
    tx_packets,    \* [WIDs -> Seq(PIDs)]
    rx_packets,    \* [WIDs -> Seq(PIDs)]
    tx_inflight,   \* [WIDs -> Int]
    rx_inflight,   \* [WIDs -> Int]
    tx_pending,    \* [WIDs -> BOOLEAN]  tx_work queued on extent_work_queue
    rx_pending,    \* [WIDs -> BOOLEAN]
    tx,            \* [WIDs -> [pc, pkt, cnt, reg, set]]  the tx work item
    rx,            \* [WIDs -> [pc, pkt, cnt, reg, set, next, ret]]
    pkt,           \* [PIDs -> packet]
    sub,           \* the submitting caller: [pc, w, p]
    fl,            \* the flushing caller: [pc, w, pre, ret, res, err, calls]
    leader_idx,    \* dp->leader_idx of the reader's data partition
    sent,          \* [WIDs -> Seq(PIDs)] sends tried on the object's own session
    handled,       \* [WIDs -> Seq(PIDs)] continuations run by the rx task
    ever_error,    \* [WIDs -> BOOLEAN] a store has put ERROR into flags[w]
    rel,           \* writers and readers being released (cfs_extent_*_release)
    http,          \* the master client's do_http_request call
    vfs,           \* the directory operations of cfs_fs.c
    cache,         \* the stream's extent cache and the flush reconciling it
    core           \* loading and unloading the kernel module (cfs_core.c)

vars == <<kind, max_writers, nr_writers, created, flags, recover, wr,
          tx_packets, rx_packets, tx_inflight, rx_inflight, tx_pending,
          rx_pending, tx, rx, pkt, sub, fl, leader_idx, sent, handled,
          ever_error, rel, http, vfs, cache, core>>

\* The variables of the pipelines.
pipeVars == <<kind, max_writers, nr_writers, created, flags, recover, wr,
              tx_packets, rx_packets, tx_inflight, rx_inflight, tx_pending,
              rx_pending, tx, rx, pkt, sub, fl, leader_idx, sent, handled,
              ever_error>>

\* The variables of the other components of the client, which the pipelines
\* leave alone.
otherVars == <<rel, http, vfs, cache, core>>

\* ------------------------------------------------------------ helpers ----
\* list_add_tail(&packet->list, &queue)
ListAddHead(q, p) == <<p>> \o q
ListAddTail(q, p) == Append(q, p)

\* list_first_entry_or_null(&queue, ...)
ListLastEntry(q) == IF q = <<>> THEN NULL ELSE q[Len(q)]
ListFirstEntry(q) == IF q = <<>> THEN NULL ELSE Head(q)

\* list_del(&packet->list)
ListDelAll(q, p) == <<>>
ListDel(q, p) == SelectSeq(q, LAMBDA x : x # p)

\* The follower address list and follower count of a data partition.
FollowerAddrs(d) == <<"followers", d>>
NrFollowers(d) == d

NoPacket ==
    [w |-> NULL, kernel_offset |-> 0, size |-> 0, pid |-> 0, ext_id |-> 0,
     ext_offset |-> 0, remaining_followers |-> 0, arg |-> <<>>,
     retry_count |-> 0, error |-> OK, private |-> NULL,
     handle_reply |-> FALSE, handled |-> 0, released |-> 0, xmit |-> 0]

\* Whether the caller installs a continuation: the stream's requests all do.
HandleReplyChoices == {TRUE}

IdleTx == [pc |-> "idle", pkt |-> NULL, cnt |-> 0, reg |-> {}, set |-> "",
           ret |-> OK]
IdleRx == [pc |-> "idle", pkt |-> NULL, cnt |-> 0, reg |-> {}, set |-> "",
           tgt |-> NULL, next |-> "", ret |-> OK]

\* No flush is under way.  res, err and calls record, until the call returns,
\* the outcome of the persisting part, the error of the call that failed and
\* the calls the flush made.
FlushIdle ==
    [pc |-> "idle", w |-> NULL, pre |-> 0, ret |-> OK, res |-> "", err |-> OK,
     calls |-> <<>>]

NoWriter == [file_offset |-> 0, dp |-> 0, ext_id |-> 0, ext_offset |-> 0,
             ext_size |-> 0, w_size |-> 0, dirty |-> FALSE, host_idx |-> 0]

\* cfs_extent_writer_new(es, dp, file_offset, ext_id, ext_offset, ext_size)
WriterNewAtFileStart(dp, file_offset, ext_id, ext_offset, ext_size) ==
    [file_offset |-> 0, dp |-> dp, ext_id |-> ext_id,
     ext_offset |-> ext_offset, ext_size |-> ext_size, w_size |-> ext_size,
     dirty |-> FALSE, host_idx |-> 0]
WriterNew(dp, file_offset, ext_id, ext_offset, ext_size) ==
    [file_offset |-> file_offset, dp |-> dp, ext_id |-> ext_id,
     ext_offset |-> ext_offset, ext_size |-> ext_size, w_size |-> ext_size,
     dirty |-> FALSE, host_idx |-> 0]

\* cfs_extent_reader_new(es, dp, host_idx, ext_id): the host index is taken
\* modulo the partition's member count (reader.c:22).
ReaderNewNoModulo(dp, host_idx, ext_id) ==
    [file_offset |-> 0, dp |-> dp, ext_id |-> ext_id, ext_offset |-> 0,
     ext_size |-> 0, w_size |-> 0, dirty |-> FALSE, host_idx |-> host_idx]
ReaderNew(dp, host_idx, ext_id) ==
    [file_offset |-> 0, dp |-> dp, ext_id |-> ext_id, ext_offset |-> 0,
     ext_size |-> 0, w_size |-> 0, dirty |-> FALSE,
     host_idx |-> host_idx % ReplicaCount]

IsWriter(w) == kind = "writer" /\ w <= created
IsReader(w) == kind = "reader" /\ w = 1

\* ------------------------------------- objects handed to release -------
\* Release calls one behaviour makes.
MaxReleaseCalls == 3
\* The objects the release functions see: the stream's writers, its reader,
\* and the recovery reader that the reader owns through reader->recover.
NumRelWriters == 2
RelWriters == 1 .. NumRelWriters
RelReader == NumRelWriters + 1
RelRecoverReader == NumRelWriters + 2
RelObjs == 1 .. RelRecoverReader

\* alive: the memory has not been kfree'd; recover: reader->recover;
\* dp_refs: references held on the data partition, one per object;
\* cancels / socks / frees: cancel_work_sync rounds, session releases and
\* kfree calls made on the object; calls: release calls per pointer;
\* oops: the kernel died.  pc, w, steps: the position of a release call that
\* runs while the object's work items may be active, the object it was given
\* and the steps it has made so far.
RelInit ==
    [alive |-> [o \in RelObjs |-> TRUE],
     recover |-> [o \in RelObjs |-> IF o = RelReader THEN RelRecoverReader
                                    ELSE NULL],
     dp_refs |-> RelRecoverReader,
     cancels |-> [o \in RelObjs |-> 0],
     socks |-> [o \in RelObjs |-> 0],
     frees |-> [o \in RelObjs |-> 0],
     calls |-> [o \in RelObjs |-> 0],
     ncalls |-> 0,
     oops |-> FALSE,
     pc |-> "idle",
     w |-> NULL,
     steps |-> <<>>]

\* ------------------------------------------------------ cfs_core.c ------
\* cfs_core.c:15-59: what cfs_init sets up, in the order of its calls.
InitSteps == <<"socket", "rdma", "packet", "extent", "fs", "page", "fs_type",
               "log">>

\* cfs_core.c:67-73: the calls after the label `exit`, in order.
InitExitCalls == <<"socket", "rdma", "packet", "extent", "fs", "page", "log">>

\* cfs_core.c:85-91: the calls of cfs_exit after unregister_filesystem.
ExitCalls == <<"packet", "socket", "rdma", "extent", "fs", "page", "log">>

\* What a failing step of cfs_init returns.
InitErrors == {ENOMEM, EIO}

\* pc: where the module is (cfs_init running, its exit path, loaded,
\* cfs_exit running, unloaded, load failed); step: the next call;
\* up: what is set up or registered; ret: what cfs_init returns;
\* failed_at: the step of cfs_init that failed.
CoreInit == [pc |-> "init", step |-> 1, up |-> {}, ret |-> OK,
             failed_at |-> ""]

\* ------------------------------------------------ master client ----------
MaxHosts == 3
HTTP_STATUS_OK == 200
HTTP_STATUS_FORBIDDEN == 403
EBADMSG == "EBADMSG"
ECONNREFUSED == "ECONNREFUSED"

\* http_response_init: every field of the response zeroed.
HttpResponseInit == [status |-> 0, json_body |-> FALSE, buffer |-> FALSE]

\* http_response_clear: buffer and JSON tree released, then the response
\* zeroed.
HttpResponseClear(response) == HttpResponseInit

\* What a master host can answer. recv tells how the receive loop ended
\* ("nomem": the response buffer could not be allocated or grown, "error":
\* cfs_socket_recv failed, "eof": the peer closed after the bytes described
\* here); line is the status line ("none": no line end in the data, "bad":
\* no parsable status code); sep is the presence of the blank line before
\* the body; json is whether the body parses; has_code and code describe the
\* body's "code" member.
HttpStatuses == {HTTP_STATUS_OK, HTTP_STATUS_FORBIDDEN, HTTP_STATUS_OK + 1}
NoReply ==
    [recv |-> "none", line |-> "none", status |-> 0, sep |-> FALSE,
     json |-> FALSE, has_code |-> FALSE, code |-> 0]
CompleteReplies ==
    {[NoReply EXCEPT !.recv = "eof", !.line = "ok", !.status = st,
                     !.sep = TRUE, !.json = b[1], !.has_code = b[2],
                     !.code = b[3]] :
        st \in HttpStatuses,
        b \in {<<FALSE, FALSE, 0>>, <<TRUE, FALSE, 0>>, <<TRUE, TRUE, 0>>,
               <<TRUE, TRUE, 1>>}}
Replies ==
    {[NoReply EXCEPT !.recv = "nomem"], [NoReply EXCEPT !.recv = "error"],
     [NoReply EXCEPT !.recv = "eof"],
     [NoReply EXCEPT !.recv = "eof", !.line = "bad"],
     [NoReply EXCEPT !.recv = "eof", !.line = "ok",
                     !.status = HTTP_STATUS_OK]}
       \cup CompleteReplies

\* The error cfs_json_get_u32 reports for a body without a "code" member.
CfsJsonGetU32Error == EBADMSG

\* do_recv_http_response: the value returned and the response left behind.
DoRecvHttpResponse(reply) ==
    LET failed(ret) ==
            [ret |-> ret, response |-> HttpResponseClear(HttpResponseInit)]
        parsed == [status |-> reply.status, json_body |-> TRUE,
                   buffer |-> TRUE]
    IN  IF reply.recv = "nomem" THEN failed(ENOMEM)
        ELSE IF reply.recv = "error" THEN failed(EIO)
        ELSE IF reply.line # "ok" THEN failed(EBADMSG)
        ELSE IF ~reply.sep THEN failed(EBADMSG)
        ELSE IF reply.status = HTTP_STATUS_FORBIDDEN THEN failed(EBADMSG)
        ELSE IF reply.status = HTTP_STATUS_OK
             THEN IF ~reply.json THEN failed(EBADMSG)
                  ELSE IF ~reply.has_code THEN failed(CfsJsonGetU32Error)
                  ELSE IF reply.code # 0
                       THEN [ret |-> EBADMSG, response |-> parsed]
                       ELSE [ret |-> OK, response |-> parsed]
        ELSE failed(EBADMSG)

\* One pass of do_http_request's loop: socket creation, receive timeout and
\* send can each fail before the response is received.
SocketErrors == {EIO, ECONNREFUSED}
Attempts ==
    [step : {"create", "timeout", "send"}, err : SocketErrors,
     reply : {NoReply}]
       \cup [step : {"recv"}, err : {OK}, reply : Replies]

\* The host after host i: i++ and the wrap to 0 (master.c:267-269).
NextHostNoWrap(i, num) == i + 1
NextHost(i, num) == IF i + 1 = num THEN 0 ELSE i + 1

\* No do_http_request call is running.
HttpIdle ==
    [pc |-> "idle", num |-> 0, start |-> 0, i |-> 0, max |-> 0, ret |-> OK,
     tried |-> <<>>, response |-> HttpResponseInit,
     last |-> [step |-> "none", ret |-> OK, reply |-> NoReply]]

\* ------------------------------------------------ directory operations ---
MaxTicks == 2
DentryCacheValidJiffies == 2
CFS_LINKS_DEFAULT == 20000000
CFS_LINKS_MIN == 1000000
EDQUOT == "EDQUOT"
EINVAL == "EINVAL"
ENOENT == "ENOENT"
ECHILD == "ECHILD"
ENAMETOOLONG == "ENAMETOOLONG"

\* Link counts the meta node can report for the directory, and link limits
\* the master can report for the cluster.
LinkCounts == {CFS_LINKS_MIN - 1, CFS_LINKS_MIN, CFS_LINKS_DEFAULT}
ReportedLimits == {0, CFS_LINKS_MIN - 1, CFS_LINKS_MIN}
MetaResults == {OK, ENOENT, EIO}

\* is_links_exceed_limit(ci): i_nlink >= links_limit.
IsLinksExceedLimitStrict(nlink, limit) == nlink > limit
IsLinksExceedLimit(nlink, limit) == nlink >= limit

\* is_dentry_cache_valid(ci): revalidate_jiffies + valid time > jiffies.
IsDentryCacheValidNever(revalidate_jiffies, now) == FALSE
IsDentryCacheValid(revalidate_jiffies, now) ==
    revalidate_jiffies + DentryCacheValidJiffies > now

\* The operations that add a name to a directory, and the meta request each
\* sends once the directory passed the link limit.
DirOps == {"create", "link", "symlink", "mkdir", "mknod", "rename"}
MetaRequestOf(op) ==
    IF op \in {"create", "symlink", "mkdir", "mknod"} THEN "create" ELSE op

\* What the latest operation was called with, what it sent to the meta node
\* and what it returned; seen is the directory's link count and limit the
\* limit at the link check (0 when no check was made); window tells whether
\* jiffies at entry was still below the inode's revalidate_jiffies plus the
\* valid time.
NoLast ==
    [op |-> "none", ret |-> OK, meta |-> <<>>, flags |-> 0, seen |-> 0,
     limit |-> 0, window |-> FALSE, rcu |-> FALSE, inode |-> FALSE,
     reply |-> OK]

\* Entries cfs_meta_readdir is asked for at a time.
READDIR_NUM == 1024

\* Numbers of entries one cfs_meta_readdir can deliver.
ReaddirCounts == {0, 1, READDIR_NUM}

\* Full batches a directory holds at most; what follows them is a short batch.
MaxDirBatches == 2

\* struct cfs_file_info of an opened directory after cfs_open: the marker is
\* the empty string, no entries are buffered. pc and ret are the position and
\* the local ret of a running cfs_iterate_dir call.  The entries of the
\* directory are numbered 1, 2, ... in the order the meta service returns
\* them: after is the number of the entry the marker names (0 for the empty
\* marker), base the number of entries that precede denties.base[0], fetched
\* the number of entries returned so far, emitted the number of the entry
\* emitted last, in_order whether every emit so far was of the entry
\* following the one emitted before it.
CfiInit ==
    [pc |-> "idle", marker |-> TRUE, num |-> 0, denties_offset |-> 0,
     done |-> FALSE, ret |-> OK, after |-> 0, base |-> 0, fetched |-> 0,
     emitted |-> 0, in_order |-> TRUE]

\* The emit loop (cfs_fs.c:674-682, 771-789) over denties.base[from .. stop-1]
\* of the batch that starts after entry number base.
EmitLoop(c, base, from, stop) ==
    [c EXCEPT !.denties_offset = stop,
              !.in_order = @ /\ (stop > from => base + from = c.emitted),
              !.emitted = IF stop > from THEN base + stop ELSE @]

\* Where an emit loop over the buffered entries from..num-1 can leave
\* denties_offset: at num when every entry fitted, at an earlier entry when
\* dir_emit reported the caller's buffer full.
EmitStops(from, num) ==
    IF from >= num THEN {from} ELSE {from, num - 1, num}

\* The mount (links_limit), one directory (nlink), one dentry of that
\* directory with its inode's revalidate_jiffies, and the directory opened
\* for reading (cfi).
VfsInit ==
    [jiffies |-> DentryCacheValidJiffies, links_limit |-> CFS_LINKS_DEFAULT,
     nlink |-> 1, revalidate_jiffies |-> 0, d_inode |-> FALSE,
     d_hashed |-> FALSE, last |-> NoLast, cfi |-> CfiInit]

\* ------------------------------------------------ extent cache ---------
\* File offsets run over 0 .. MaxFileBlocks - 1, in blocks.
MaxFileBlocks == 3
\* Extents the data nodes hand out.
NumExtentIds == 2

\* Extent descriptors (file_offset, pid, ext_id, ext_offset, size), size > 0,
\* that lie within the file.
Extents ==
    {e \in [file_offset : 0 .. (MaxFileBlocks - 1), pid : DataPartitions,
            ext_id : 1 .. NumExtentIds, ext_offset : {0},
            size : 1 .. MaxFileBlocks] :
        e.file_offset + e.size <= MaxFileBlocks}

\* The file-offset interval [file_offset, file_offset + size) of a descriptor.
Covers(e) == e.file_offset .. (e.file_offset + e.size - 1)
Intersects(a, b) == Covers(a) \cap Covers(b) # {}

\* cfs_extent_cache_append(cache, ext, sync, discard): ext is inserted; every
\* cached descriptor whose interval intersects ext's is removed and handed
\* back in discard.
ExtentCacheAppendKeepOld(c, ext) ==
    [extents |-> c.extents \cup {ext},
     size_hint |-> IF ext.file_offset + ext.size > c.size_hint
                   THEN ext.file_offset + ext.size ELSE c.size_hint,
     discard |-> {e \in c.extents : Intersects(e, ext)}]
ExtentCacheAppend(c, ext) ==
    [extents |-> {e \in c.extents : ~Intersects(e, ext)} \cup {ext},
     size_hint |-> IF ext.file_offset + ext.size > c.size_hint
                   THEN ext.file_offset + ext.size ELSE c.size_hint,
     discard |-> {e \in c.extents : Intersects(e, ext)}]

\* cfs_extent_cache_remove_discard(cache, discard): the discarded descriptors
\* are removed; those already gone are skipped.
ExtentCacheRemoveDiscard(c, discard) ==
    [extents |-> c.extents \ discard, size_hint |-> c.size_hint]

\* cfs_extent_cache_truncate(cache, size): descriptors at or past size are
\* removed, one that straddles size is trimmed to end there.
ExtentCacheTruncate(c, size) ==
    [extents |->
        {e \in c.extents : e.file_offset + e.size <= size}
          \cup {[e EXCEPT !.size = size - e.file_offset] :
                  e \in {x \in c.extents :
                           x.file_offset < size
                             /\ size < x.file_offset + x.size}},
     size_hint |-> size]

\* An empty cache; no flush is reconciling it. pc and discard are the
\* position and the discard_extents array of the cfs_extent_writer_flush
\* call under way.
CacheInit ==
    [extents |-> {}, size_hint |-> 0, pc |-> "idle", discard |-> {}]

\* ---------------------------------------------------------------- Init ---
\* The stream's first writers cover disjoint ranges of the file.
InitFileOffset(w) == (w - 1) * (MaxPackets + 1)

Init ==
    /\ kind \in {"writer", "reader"}
    /\ max_writers \in IF kind = "writer" THEN MaxWritersChoices ELSE {0}
    /\ nr_writers = IF kind = "writer" THEN NumWriters ELSE 0
    /\ created = IF kind = "writer" THEN NumWriters ELSE 1
    /\ flags = [w \in WIDs |-> {}]
    /\ recover = [w \in WIDs |-> NULL]
    /\ \E h \in IF kind = "reader" THEN 0 .. (ReplicaCount - 1) ELSE {0} :
         wr = [w \in WIDs |->
                 IF kind = "writer" /\ w <= NumWriters
                 THEN WriterNew(1, InitFileOffset(w), w, 0, 0)
                 ELSE IF kind = "reader" /\ w = 1
                 THEN ReaderNew(1, h, 1)
                 ELSE NoWriter]
    /\ tx_packets = [w \in WIDs |-> <<>>]
    /\ rx_packets = [w \in WIDs |-> <<>>]
    /\ tx_inflight = [w \in WIDs |-> 0]
    /\ rx_inflight = [w \in WIDs |-> 0]
    /\ tx_pending = [w \in WIDs |-> FALSE]
    /\ rx_pending = [w \in WIDs |-> FALSE]
    /\ tx = [w \in WIDs |-> IdleTx]
    /\ rx = [w \in WIDs |-> IdleRx]
    /\ pkt = [p \in PIDs |-> NoPacket]
    /\ sub = [pc |-> "idle", w |-> NULL, p |-> NULL]
    /\ fl = FlushIdle
    /\ leader_idx \in IF kind = "reader" THEN 0 .. (ReplicaCount - 1) ELSE {0}
    /\ sent = [w \in WIDs |-> <<>>]
    /\ handled = [w \in WIDs |-> <<>>]
    /\ ever_error = [w \in WIDs |-> FALSE]
    /\ rel = RelInit
    /\ http = HttpIdle
    /\ vfs = VfsInit
    /\ cache = CacheInit
    /\ core = CoreInit

\* ------------------------------------------- cfs_extent_writer_request ---
\* The caller builds the request for the bytes that follow what the writer
\* already holds, then calls cfs_extent_writer_request / _reader_request.
NewRequest(w, size, hr) ==
    [NoPacket EXCEPT
        !.w = w,
        !.kernel_offset = wr[w].file_offset + wr[w].w_size,
        !.size = size,
        !.pid = wr[w].dp,
        !.ext_id = wr[w].ext_id,
        !.ext_offset = wr[w].w_size,
        !.remaining_followers = NrFollowers(wr[w].dp),
        !.arg = FollowerAddrs(wr[w].dp),
        !.private = w,
        !.handle_reply = hr]

\* The next request id: packets are numbered in the order they are submitted.
NextPacket == IF \E p \in PIDs : pkt[p].w = NULL
              THEN CHOOSE p \in PIDs : pkt[p].w = NULL /\ \A q \in PIDs : q < p => pkt[q].w # NULL
              ELSE NULL

\* writer.c:112-114: set_dirty, write_bytes (the reader's request has neither).
SubmitBegin(w) ==
    /\ sub.pc = "idle"
    /\ NextPacket # NULL
    /\ IsWriter(w) \/ IsReader(w)
    /\ \E size \in PacketSizes, hr \in HandleReplyChoices :
         /\ pkt' = [pkt EXCEPT ![NextPacket] = NewRequest(w, size, hr)]
         /\ wr' = IF kind = "writer"
                  THEN [wr EXCEPT ![w].dirty = TRUE, ![w].w_size = @ + size]
                  ELSE wr
    /\ sub' = [pc |-> "add", w |-> w, p |-> NextPacket]
    /\ UNCHANGED <<kind, max_writers, nr_writers, created, flags, recover,
                   tx_packets, rx_packets, tx_inflight, rx_inflight,
                   tx_pending, rx_pending, tx, rx, fl, leader_idx, sent,
                   handled>>
    /\ UNCHANGED <<ever_error, otherVars>>

\* writer.c:115-117: list_add_tail under lock_tx.
SubmitEnqueue ==
    /\ sub.pc = "add"
    /\ tx_packets' = [tx_packets EXCEPT ![sub.w] = ListAddTail(@, sub.p)]
    /\ sub' = [sub EXCEPT !.pc = "inc"]
    /\ UNCHANGED <<kind, max_writers, nr_writers, created, flags, recover, wr,
                   rx_packets, tx_inflight, rx_inflight, tx_pending,
                   rx_pending, tx, rx, pkt, fl, leader_idx, sent, handled>>
    /\ UNCHANGED <<ever_error, otherVars>>

\* writer.c:118-119: atomic_inc(&tx_inflight); queue_work(tx_work).
SubmitSchedule ==
    /\ sub.pc = "inc"
    /\ tx_inflight' = [tx_inflight EXCEPT ![sub.w] = @ + 1]
    /\ tx_pending' = [tx_pending EXCEPT ![sub.w] = TRUE]
    /\ sub' = [pc |-> "idle", w |-> NULL, p |-> NULL]
    /\ UNCHANGED <<kind, max_writers, nr_writers, created, flags, recover, wr,
                   tx_packets, rx_packets, rx_inflight, rx_pending, tx, rx,
                   pkt, fl, leader_idx, sent, handled>>
    /\ UNCHANGED <<ever_error, otherVars>>

\* ------------------------------------------------ the tx work item ------
\* Results of cfs_socket_send_packet / cfs_rdma_send_packet.
SendResults == {OK, EIO, ENOMEM}

\* writer.c:152-153: every failed send sets RECOVER.
WriterTxFlag(ret) == IF ret # OK THEN F_RECOVER ELSE ""

\* reader.c:123-129: ENOMEM sets ERROR, any other failure sets RECOVER.
ReaderTxFlag(ret) ==
    IF ret = ENOMEM THEN F_ERROR ELSE IF ret # OK THEN F_RECOVER ELSE ""

\* writer.c:141-142: a packet dequeued while ERROR or RECOVER is set skips the
\* send and goes straight to the rx queue.
TxAfterDequeueDropping(f) ==
    IF f \cap {F_ERROR, F_RECOVER} = {} THEN "send" ELSE "deq"
TxAfterDequeue(f) ==
    IF f \cap {F_ERROR, F_RECOVER} = {} THEN "send" ELSE "enq"

\* A worker of extent_work_queue picks the queued tx_work up.
TxStart(w) ==
    /\ tx_pending[w]
    /\ tx[w].pc = "idle"
    /\ tx_pending' = [tx_pending EXCEPT ![w] = FALSE]
    /\ tx' = [tx EXCEPT ![w].pc = "deq"]
    /\ UNCHANGED <<kind, max_writers, nr_writers, created, flags, recover, wr,
                   tx_packets, rx_packets, tx_inflight, rx_inflight,
                   rx_pending, rx, pkt, sub, fl, leader_idx, sent, handled>>
    /\ UNCHANGED <<ever_error, otherVars>>

\* writer.c:130-142: take the first packet off tx_packets, or leave the
\* loop; then the unlocked read of writer->flags decides whether to send.
TxDequeue(w) ==
    /\ tx[w].pc = "deq"
    /\ LET p == ListFirstEntry(tx_packets[w]) IN
         IF p = NULL
         THEN /\ tx' = [tx EXCEPT ![w].pc = "end"]
              /\ UNCHANGED tx_packets
         ELSE /\ tx_packets' = [tx_packets EXCEPT ![w] = ListDel(@, p)]
              /\ tx' = [tx EXCEPT ![w].pkt = p, ![w].cnt = @ + 1,
                          ![w].pc = TxAfterDequeue(flags[w])]
    /\ UNCHANGED <<kind, max_writers, nr_writers, created, flags, recover, wr,
                   rx_packets, tx_inflight, rx_inflight, tx_pending,
                   rx_pending, rx, pkt, sub, fl, leader_idx, sent, handled>>
    /\ UNCHANGED <<ever_error, otherVars>>

\* writer.c:144-153: send on the object's own session; when it failed,
\* `flags |= F` follows: its load of flags here, its store in TxStoreFlags.
TxSend(w) ==
    /\ tx[w].pc = "send"
    /\ \E ret \in SendResults :
         LET f == IF kind = "writer" THEN WriterTxFlag(ret)
                  ELSE ReaderTxFlag(ret) IN
         /\ sent' = [sent EXCEPT ![w] = Append(@, tx[w].pkt)]
         /\ pkt' = [pkt EXCEPT ![tx[w].pkt].xmit = @ + 1]
         /\ tx' = [tx EXCEPT ![w].pc = IF f = "" THEN "enq" ELSE "st",
                             ![w].set = f, ![w].ret = ret,
                             ![w].reg = IF f = "" THEN {} ELSE flags[w]]
    /\ UNCHANGED <<kind, max_writers, nr_writers, created, flags, recover, wr,
                   tx_packets, rx_packets, tx_inflight, rx_inflight,
                   tx_pending, rx_pending, rx, sub, fl, leader_idx, handled>>
    /\ UNCHANGED <<ever_error, otherVars>>

\* writer.c:153: the store of `flags |= F`.
TxStoreFlags(w) ==
    /\ tx[w].pc = "st"
    /\ flags' = [flags EXCEPT ![w] = tx[w].reg \cup {tx[w].set}]
    /\ tx' = [tx EXCEPT ![w].pc = "enq", ![w].reg = {}, ![w].set = "",
                        ![w].ret = OK]
    /\ UNCHANGED <<kind, max_writers, nr_writers, created, recover, wr,
                   tx_packets, rx_packets, tx_inflight, rx_inflight,
                   tx_pending, rx_pending, rx, pkt, sub, fl, leader_idx, sent,
                   handled>>
    /\ ever_error' = [ever_error EXCEPT ![w] = @ \/ tx[w].set = F_ERROR]
    /\ UNCHANGED otherVars

\* writer.c:155-157: list_add_tail to rx_packets under lock_rx.
TxEnqueueRx(w) ==
    /\ tx[w].pc = "enq"
    /\ rx_packets' = [rx_packets EXCEPT ![w] = ListAddTail(@, tx[w].pkt)]
    /\ tx' = [tx EXCEPT ![w].pc = "inc", ![w].pkt = NULL]
    /\ UNCHANGED <<kind, max_writers, nr_writers, created, flags, recover, wr,
                   tx_packets, tx_inflight, rx_inflight, tx_pending,
                   rx_pending, rx, pkt, sub, fl, leader_idx, sent, handled>>
    /\ UNCHANGED <<ever_error, otherVars>>

\* writer.c:158-159: atomic_inc(&rx_inflight); queue_work(rx_work).
TxScheduleRx(w) ==
    /\ tx[w].pc = "inc"
    /\ rx_inflight' = [rx_inflight EXCEPT ![w] = @ + 1]
    /\ rx_pending' = [rx_pending EXCEPT ![w] = TRUE]
    /\ tx' = [tx EXCEPT ![w].pc = "deq"]
    /\ UNCHANGED <<kind, max_writers, nr_writers, created, flags, recover, wr,
                   tx_packets, rx_packets, tx_inflight, tx_pending, rx, pkt,
                   sub, fl, leader_idx, sent, handled>>
    /\ UNCHANGED <<ever_error, otherVars>>

\* wake_up(&wq): a flush asleep on this object's wait queue evaluates its
\* condition again.
WakeUpNobody(w, asleep) == fl
WakeUp(w, asleep) ==
    IF fl.w = w /\ fl.pc = asleep
    THEN [fl EXCEPT !.pc = IF asleep = "sleep_tx" THEN "wait_tx" ELSE "wait_rx"]
    ELSE fl

\* writer.c:161-162: atomic_sub(cnt, &tx_inflight); wake_up(&tx_wq).
TxEnd(w) ==
    /\ tx[w].pc = "end"
    /\ tx_inflight' = [tx_inflight EXCEPT ![w] = @ - tx[w].cnt]
    /\ tx' = [tx EXCEPT ![w] = IdleTx]
    /\ fl' = WakeUp(w, "sleep_tx")
    /\ UNCHANGED <<kind, max_writers, nr_writers, created, flags, recover, wr,
                   tx_packets, rx_packets, rx_inflight, tx_pending,
                   rx_pending, rx, pkt, sub, leader_idx, sent, handled>>
    /\ UNCHANGED <<ever_error, otherVars>>

TxTask(w) ==
    \/ TxStart(w) \/ TxDequeue(w) \/ TxSend(w)
    \/ TxStoreFlags(w) \/ TxEnqueueRx(w)
    \/ TxScheduleRx(w) \/ TxEnd(w)

\* ------------------------------------------------ the rx work item ------
\* Results of cfs_socket_recv_packet / do_extent_request: "ok" is ret = 0 with
\* reply.hdr.result_code OK; "fail" is ret < 0 or a result code that is not
\* OK, which the source treats alike (writer.c:233, 290).
RecvResults == {"ok", "fail"}

\* Where recover_packet goes: extent_writer_recover starts at the cap check
\* unless writer->recover is set (writer.c:166-171); the reader's recovery.
RecoverEntryAlwaysNew(w) ==
    IF kind = "reader" THEN "rrec" ELSE "cap"
RecoverEntry(w) ==
    IF kind = "reader" THEN "rrec"
    ELSE IF recover[w] = NULL THEN "cap" ELSE "reissue"

RxStart(w) ==
    /\ rx_pending[w]
    /\ rx[w].pc = "idle"
    /\ rx_pending' = [rx_pending EXCEPT ![w] = FALSE]
    /\ rx' = [rx EXCEPT ![w].pc = "deq"]
    /\ UNCHANGED <<kind, max_writers, nr_writers, created, flags, recover, wr,
                   tx_packets, rx_packets, tx_inflight, rx_inflight,
                   tx_pending, tx, pkt, sub, fl, leader_idx, sent, handled>>
    /\ UNCHANGED <<ever_error, otherVars>>

\* writer.c:265-282: take the first packet off rx_packets, or leave the
\* loop; ERROR drains the packet with -EIO, RECOVER sends it to
\* recover_packet, otherwise the reply is received.
RxDequeue(w) ==
    /\ rx[w].pc = "deq"
    /\ LET p == ListFirstEntry(rx_packets[w]) IN
         IF p = NULL
         THEN /\ rx' = [rx EXCEPT ![w].pc = "end"]
              /\ UNCHANGED <<rx_packets, pkt>>
         ELSE /\ rx_packets' = [rx_packets EXCEPT ![w] = ListDel(@, p)]
              /\ IF F_ERROR \in flags[w]
                 THEN /\ pkt' = [pkt EXCEPT ![p].error = EIO]
                      /\ rx' = [rx EXCEPT ![w].pkt = p, ![w].cnt = @ + 1,
                                          ![w].pc = "handle"]
                 ELSE /\ rx' = [rx EXCEPT ![w].pkt = p, ![w].cnt = @ + 1,
                                  ![w].pc = IF F_RECOVER \in flags[w]
                                            THEN RecoverEntry(w) ELSE "recv"]
                      /\ UNCHANGED pkt
    /\ UNCHANGED <<kind, max_writers, nr_writers, created, flags, recover, wr,
                   tx_packets, tx_inflight, rx_inflight, tx_pending,
                   rx_pending, tx, sub, fl, leader_idx, sent, handled>>
    /\ UNCHANGED <<ever_error, otherVars>>

\* writer.c:284-294: receive the reply; on failure `flags |= RECOVER`
\* (its load here, its store in RxStoreFlags) and recover_packet.
RxRecv(w) ==
    /\ rx[w].pc = "recv"
    /\ \E res \in RecvResults :
         /\ rx' = IF res = "ok"
                  THEN [rx EXCEPT ![w].pc = "handle"]
                  ELSE [rx EXCEPT ![w].pc = "st", ![w].reg = flags[w],
                                  ![w].set = F_RECOVER, ![w].tgt = w,
                                  ![w].next = RecoverEntry(w)]
    /\ UNCHANGED <<kind, max_writers, nr_writers, created, flags, recover, wr,
                   tx_packets, rx_packets, tx_inflight, rx_inflight,
                   tx_pending, rx_pending, tx, pkt, sub, fl, leader_idx, sent,
                   handled>>
    /\ UNCHANGED <<ever_error, otherVars>>

\* The store of a `flags |= F` of the rx task (writer.c:238, 291, 300;
\* reader.c:153, 211).
RxStoreFlags(w) ==
    /\ rx[w].pc = "st"
    /\ flags' = [flags EXCEPT ![rx[w].tgt] = rx[w].reg \cup {rx[w].set}]
    /\ rx' = [rx EXCEPT ![w].pc = rx[w].next, ![w].reg = {}, ![w].set = "",
                        ![w].tgt = NULL, ![w].next = ""]
    /\ UNCHANGED <<kind, max_writers, nr_writers, created, recover, wr,
                   tx_packets, rx_packets, tx_inflight, rx_inflight,
                   tx_pending, rx_pending, tx, pkt, sub, fl, leader_idx, sent,
                   handled>>
    /\ ever_error' = [ever_error EXCEPT ![rx[w].tgt] = @ \/ rx[w].set = F_ERROR]
    /\ UNCHANGED otherVars

\* writer.c:303-305: the continuation, when the packet has one.
RxHandleTwice(w) ==
    /\ rx[w].pc = "handle"
    /\ pkt' = [pkt EXCEPT ![rx[w].pkt].handled = @ + 2]
    /\ handled' = [handled EXCEPT ![w] = Append(@, rx[w].pkt)]
    /\ rx' = [rx EXCEPT ![w].pc = "rel"]
    /\ UNCHANGED <<kind, max_writers, nr_writers, created, flags, recover, wr,
                   tx_packets, rx_packets, tx_inflight, rx_inflight,
                   tx_pending, rx_pending, tx, sub, fl, leader_idx, sent>>
    /\ UNCHANGED <<ever_error, otherVars>>
RxHandle(w) ==
    /\ rx[w].pc = "handle"
    /\ IF pkt[rx[w].pkt].handle_reply
       THEN /\ pkt' = [pkt EXCEPT ![rx[w].pkt].handled = @ + 1]
            /\ handled' = [handled EXCEPT ![w] = Append(@, rx[w].pkt)]
       ELSE UNCHANGED <<pkt, handled>>
    /\ rx' = [rx EXCEPT ![w].pc = "rel"]
    /\ UNCHANGED <<kind, max_writers, nr_writers, created, flags, recover, wr,
                   tx_packets, rx_packets, tx_inflight, rx_inflight,
                   tx_pending, rx_pending, tx, sub, fl, leader_idx, sent>>
    /\ UNCHANGED <<ever_error, otherVars>>

\* writer.c:306: cfs_packet_release(packet).
RxRelease(w) ==
    /\ rx[w].pc = "rel"
    /\ pkt' = [pkt EXCEPT ![rx[w].pkt].released = @ + 1]
    /\ rx' = [rx EXCEPT ![w].pc = "deq", ![w].pkt = NULL, ![w].ret = OK]
    /\ UNCHANGED <<kind, max_writers, nr_writers, created, flags, recover, wr,
                   tx_packets, rx_packets, tx_inflight, rx_inflight,
                   tx_pending, rx_pending, tx, sub, fl, leader_idx, sent,
                   handled>>
    /\ UNCHANGED <<ever_error, otherVars>>

\* writer.c:308-309: atomic_sub(cnt, &rx_inflight); wake_up(&rx_wq).
RxEnd(w) ==
    /\ rx[w].pc = "end"
    /\ rx_inflight' = [rx_inflight EXCEPT ![w] = @ - rx[w].cnt]
    /\ rx' = [rx EXCEPT ![w] = IdleRx]
    /\ fl' = WakeUp(w, "sleep_rx")
    /\ UNCHANGED <<kind, max_writers, nr_writers, created, flags, recover, wr,
                   tx_packets, rx_packets, tx_inflight, tx_pending,
                   rx_pending, tx, pkt, sub, leader_idx, sent, handled>>
    /\ UNCHANGED <<ever_error, otherVars>>

\* --------------------------------------------- extent_writer_recover ----
UC_RX == <<kind, max_writers, flags, tx_packets, rx_packets, tx_inflight,
           rx_inflight, tx_pending, rx_pending, tx, sub, fl, leader_idx,
           sent, handled>>

\* The rx task leaves extent_writer_recover with ret < 0: rx_work_cb then
\* does `writer->flags |= ERROR` (writer.c:298-301), whose load is taken here.
RecoverFailed(w, ret) ==
    [rx EXCEPT ![w].pc = "st", ![w].reg = flags[w], ![w].set = F_ERROR,
               ![w].tgt = w, ![w].next = "handle", ![w].ret = ret]

\* writer.c:175-182: the cap check, under es->lock_writers.
RecCheckCap(w) ==
    /\ rx[w].pc = "cap"
    /\ IF nr_writers >= max_writers
       THEN /\ pkt' = [pkt EXCEPT ![rx[w].pkt].error = EPERM]
            /\ rx' = RecoverFailed(w, EPERM)
       ELSE /\ rx' = [rx EXCEPT ![w].pc = "alloc"]
            /\ UNCHANGED pkt
    /\ UNCHANGED <<nr_writers, created, recover, wr>>
    /\ UNCHANGED UC_RX
    /\ UNCHANGED <<ever_error, otherVars>>

\* writer.c:184-205: cfs_extent_id_new, then cfs_extent_writer_new; either
\* may fail, and `packet->error` gets the error.  The new writer starts at the
\* packet's kernel_offset, with extent offset 0 and size 0; it joins
\* es->writers under es->lock_writers and becomes writer->recover.
RecAlloc(w) ==
    /\ rx[w].pc = "alloc"
    /\ \/ \E e \in ExtentIdNewErrors :
            /\ pkt' = [pkt EXCEPT ![rx[w].pkt].error = e]
            /\ rx' = RecoverFailed(w, e)
            /\ UNCHANGED <<nr_writers, created, recover, wr>>
       \/ /\ pkt' = [pkt EXCEPT ![rx[w].pkt].error = ENOMEM]
          /\ rx' = RecoverFailed(w, ENOMEM)
          /\ UNCHANGED <<nr_writers, created, recover, wr>>
       \/ /\ created < MaxWid
          /\ \E d \in DataPartitions :
               LET n == created + 1 IN
               /\ wr' = [wr EXCEPT ![n] =
                            WriterNew(d, pkt[rx[w].pkt].kernel_offset, n, 0,
                                      0)]
               /\ created' = n
               /\ nr_writers' = nr_writers + 1
               /\ recover' = [recover EXCEPT ![w] = n]
          /\ rx' = [rx EXCEPT ![w].pc = "reissue"]
          /\ UNCHANGED pkt
    /\ UNCHANGED UC_RX
    /\ UNCHANGED <<ever_error, otherVars>>

\* writer.c:210-216: the request header re-targeted at the recovery writer.
RewriteRequestMovingOffset(p, r) ==
    [p EXCEPT !.pid = wr[r].dp,
              !.ext_id = wr[r].ext_id,
              !.kernel_offset = p.kernel_offset - wr[r].file_offset,
              !.ext_offset = p.kernel_offset - wr[r].file_offset,
              !.remaining_followers = NrFollowers(wr[r].dp)]
RewriteRequest(p, r) ==
    [p EXCEPT !.pid = wr[r].dp,
              !.ext_id = wr[r].ext_id,
              !.ext_offset = p.kernel_offset - wr[r].file_offset,
              !.remaining_followers = NrFollowers(wr[r].dp)]

\* writer.c:249-250: "Update the writer pointer": packet->private = recover.
UpdateWriterPointerKeepOld(p, r) == p
UpdateWriterPointer(p, r) == [p EXCEPT !.private = r]

\* Results of the re-issue: cfs_packet_set_request_arg fails ("arg"), or
\* do_extent_request runs and gives one of RecvResults.
ReissueResults == {"arg"} \cup RecvResults

\* writer.c:210-252: rewrite the header, set the argument, count the retry and
\* issue the request synchronously against the recovery writer's leader.
RecReissue(w) ==
    /\ rx[w].pc = "reissue"
    /\ \E res \in ReissueResults :
         LET p == rx[w].pkt
             r == recover[w]
             hdr == RewriteRequest(pkt[p], r)
             req == [hdr EXCEPT !.arg = FollowerAddrs(wr[r].dp),
                                !.retry_count = @ + 1]
         IN
         CASE res = "arg" ->
                /\ pkt' = [pkt EXCEPT ![p] = hdr]
                /\ rx' = RecoverFailed(w, ENOMEM)
           [] res = "ok" ->
                /\ pkt' = [pkt EXCEPT ![p] =
                              UpdateWriterPointer([req EXCEPT !.xmit = @ + 1],
                                                  r)]
                /\ rx' = [rx EXCEPT ![w].pc = "handle"]
           [] res = "fail" ->
                /\ pkt' = [pkt EXCEPT ![p] = [req EXCEPT !.xmit = @ + 1]]
                /\ rx' = [rx EXCEPT ![w].pc = "fst", ![w].reg = flags[r],
                                    ![w].tgt = r]
    /\ UNCHANGED <<nr_writers, created, recover, wr>>
    /\ UNCHANGED UC_RX
    /\ UNCHANGED <<ever_error, otherVars>>

\* writer.c:241: may the failed re-issue be tried again?
MayRetry(retry_count) == retry_count <= REQUEST_RETRY_MAX

\* writer.c:238-247: the store of `recover->flags |= ERROR`; drop the failed
\* recovery writer; retry with a new one while retry_count <=
\* REQUEST_RETRY_MAX, else return -EIO.
RecRetry(w) ==
    /\ rx[w].pc = "fst"
    /\ flags' = [flags EXCEPT ![rx[w].tgt] = rx[w].reg \cup {F_ERROR}]
    /\ recover' = [recover EXCEPT ![w] = NULL]
    /\ rx' = IF MayRetry(pkt[rx[w].pkt].retry_count)
             THEN [rx EXCEPT ![w].pc = "cap", ![w].reg = {}, ![w].tgt = NULL]
             ELSE RecoverFailed(w, EIO)
    /\ UNCHANGED <<kind, max_writers, nr_writers, created, wr, tx_packets,
                   rx_packets, tx_inflight, rx_inflight, tx_pending,
                   rx_pending, tx, pkt, sub, fl, leader_idx, sent, handled>>
    /\ ever_error' = [ever_error EXCEPT ![rx[w].tgt] = TRUE]
    /\ UNCHANGED otherVars

\* --------------------------------------------- extent_reader_recover ----
\* reader.c:146-160: without a recovery reader, create one at host_idx + 1 on
\* the same partition and extent; failing that, set ERROR and return -ENOMEM.
\* rx[w].tgt is the local pointer `recover` (reader.c:148, 159).
RdRecoverNew(w) ==
    /\ rx[w].pc = "rrec"
    /\ IF recover[w] # NULL
       THEN /\ rx' = [rx EXCEPT ![w].pc = "rreq", ![w].tgt = recover[w]]
            /\ UNCHANGED <<recover, wr, pkt>>
       ELSE \/ /\ pkt' = [pkt EXCEPT ![rx[w].pkt].error = ENOMEM]
               /\ rx' = RecoverFailed(w, ENOMEM)
               /\ UNCHANGED <<recover, wr>>
            \/ /\ wr' = [wr EXCEPT ![created + 1] =
                           ReaderNew(wr[w].dp, wr[w].host_idx + 1,
                                     wr[w].ext_id)]
               /\ recover' = [recover EXCEPT ![w] = created + 1]
               /\ rx' = [rx EXCEPT ![w].pc = "rreq", ![w].tgt = created + 1]
               /\ UNCHANGED pkt
    /\ UNCHANGED <<nr_writers, created>>
    /\ UNCHANGED UC_RX
    /\ UNCHANGED <<ever_error, otherVars>>

\* Results of do_extent_request_retry: a negative errno, or the index of the
\* member that answered.
RetryResults == {-5} \cup (0 .. (ReplicaCount - 1))

\* reader.c:163-169: cfs_data_partition_set_leader(recover->dp, ret) runs only
\* when the retry did not fail.
LeaderAfterRetryAlways(old, ret) == IF ret < 0 THEN 0 ELSE ret
LeaderAfterRetry(old, ret) == IF ret < 0 THEN old ELSE ret

\* reader.c:162-171: one do_extent_request_retry; on failure the recovery
\* reader is released, on success the partition's leader becomes the host
\* that answered.
RdRecoverRequest(w) ==
    /\ rx[w].pc = "rreq"
    /\ \E ret \in RetryResults :
         /\ leader_idx' = LeaderAfterRetry(leader_idx, ret)
         /\ pkt' = [pkt EXCEPT ![rx[w].pkt].xmit = @ + 1]
         /\ IF ret < 0
            THEN /\ wr' = [wr EXCEPT ![rx[w].tgt] = NoWriter]
                 /\ recover' = [recover EXCEPT ![w] = NULL]
                 /\ rx' = [rx EXCEPT ![w].pc = "handle", ![w].ret = EIO,
                                     ![w].tgt = NULL]
            ELSE /\ rx' = [rx EXCEPT ![w].pc = "handle", ![w].tgt = NULL]
                 /\ UNCHANGED <<recover, wr>>
    /\ UNCHANGED <<kind, max_writers, nr_writers, created, flags, tx_packets,
                   rx_packets, tx_inflight, rx_inflight, tx_pending,
                   rx_pending, tx, sub, fl, sent, handled>>
    /\ UNCHANGED <<ever_error, otherVars>>

RxTask(w) ==
    \/ RxStart(w) \/ RxDequeue(w) \/ RxRecv(w)
    \/ RxStoreFlags(w) \/ RecCheckCap(w) \/ RecAlloc(w)
    \/ RecReissue(w) \/ RecRetry(w) \/ RdRecoverNew(w) \/ RdRecoverRequest(w)
    \/ RxHandle(w) \/ RxRelease(w) \/ RxEnd(w)

\* ------------------------------------------------ cfs_extent_writer_flush
\* Packets whose cfs_extent_writer_request call has returned: packets are
\* numbered in submission order, so these are the packets 1 .. SubmitsReturned.
SubmitsStarted == Cardinality({p \in PIDs : pkt[p].w # NULL})
SubmitsReturned == SubmitsStarted - (IF sub.pc = "idle" THEN 0 ELSE 1)

\* Results of the flush's persisting part (writer.c:84-105): ext_size is 0,
\* cfs_extent_cache_append fails, cfs_meta_append_extent fails, or both succeed.
PersistResults == {"empty", "cache_err", "meta_err", "ok"}

\* What a failing cfs_extent_cache_append or cfs_meta_append_extent returns.
PersistErrors == {EIO, ENOMEM}

\* writer.c:82-83: wait_event(wq, atomic_read(&inflight) == 0).
WaitEventNoWait(inflight) == TRUE
WaitEvent(inflight) == inflight = 0

\* writer.c:84-105: the calls the persisting part makes, in order.
PersistCallsReconcilingOnError(res) ==
    CASE res = "empty" -> <<>>
      [] res = "cache_err" -> <<"cache_append">>
      [] res \in {"meta_err", "ok"} ->
           <<"cache_append", "meta_append_extent", "remove_discard",
             "clear_dirty">>
PersistCalls(res) ==
    CASE res = "empty" -> <<>>
      [] res = "cache_err" -> <<"cache_append">>
      [] res = "meta_err" -> <<"cache_append", "meta_append_extent">>
      [] res = "ok" ->
           <<"cache_append", "meta_append_extent", "remove_discard",
             "clear_dirty">>

\* writer.c:85, 93, 101, 106: what the persisting part returns.
PersistReturn(res, err) ==
    IF res \in {"cache_err", "meta_err"} THEN err ELSE OK

\* writer.c:80-81 (the reader's flush has no dirty test, reader.c:77-81).
FlushCall(w) ==
    /\ fl.pc = "idle"
    /\ IsWriter(w) \/ IsReader(w)
    /\ fl' = [FlushIdle EXCEPT
                 !.pc = IF kind = "writer" /\ ~wr[w].dirty THEN "ret"
                        ELSE "wait_tx",
                 !.w = w, !.pre = SubmitsReturned]
    /\ UNCHANGED <<kind, max_writers, nr_writers, created, flags, recover, wr,
                   tx_packets, rx_packets, tx_inflight, rx_inflight,
                   tx_pending, rx_pending, tx, rx, pkt, sub, leader_idx, sent,
                   handled>>
    /\ UNCHANGED <<ever_error, otherVars>>

\* writer.c:82: wait_event(tx_wq, tx_inflight == 0): the caller goes on when
\* the condition holds, and otherwise sleeps on tx_wq until a wake_up.
FlushWaitTx ==
    /\ fl.pc = "wait_tx"
    /\ fl' = [fl EXCEPT !.pc = IF WaitEvent(tx_inflight[fl.w])
                               THEN "wait_rx" ELSE "sleep_tx"]
    /\ UNCHANGED <<kind, max_writers, nr_writers, created, flags, recover, wr,
                   tx_packets, rx_packets, tx_inflight, rx_inflight,
                   tx_pending, rx_pending, tx, rx, pkt, sub, leader_idx, sent,
                   handled>>
    /\ UNCHANGED <<ever_error, otherVars>>

\* writer.c:83: wait_event(rx_wq, rx_inflight == 0), likewise on rx_wq.
FlushWaitRx ==
    /\ fl.pc = "wait_rx"
    /\ fl' = [fl EXCEPT !.pc = IF ~WaitEvent(rx_inflight[fl.w])
                               THEN "sleep_rx"
                               ELSE IF kind = "writer" THEN "persist"
                               ELSE "ret"]
    /\ UNCHANGED <<kind, max_writers, nr_writers, created, flags, recover, wr,
                   tx_packets, rx_packets, tx_inflight, rx_inflight,
                   tx_pending, rx_pending, tx, rx, pkt, sub, leader_idx, sent,
                   handled>>
    /\ UNCHANGED <<ever_error, otherVars>>

\* writer.c:84-106: nothing to persist when ext_size is 0; otherwise the cache
\* append and the meta append_extent, and only after both succeeded
\* remove_discard and clear_dirty.  ext_size starts at the value given to
\* cfs_extent_writer_new and is grown by the packets' continuations, which are
\* not in this file, so whether it is 0 here is an input.
FlushPersist ==
    /\ fl.pc = "persist"
    /\ \E res \in PersistResults :
         \E err \in IF res \in {"cache_err", "meta_err"}
                    THEN PersistErrors ELSE {OK} :
           LET calls == PersistCalls(res) IN
           /\ fl' = [fl EXCEPT !.pc = "ret", !.res = res, !.err = err,
                               !.calls = calls,
                               !.ret = PersistReturn(res, err)]
           /\ wr' = IF \E i \in 1 .. Len(calls) : calls[i] = "clear_dirty"
                    THEN [wr EXCEPT ![fl.w].dirty = FALSE] ELSE wr
    /\ UNCHANGED <<kind, max_writers, nr_writers, created, flags, recover,
                   tx_packets, rx_packets, tx_inflight, rx_inflight,
                   tx_pending, rx_pending, tx, rx, pkt, sub, leader_idx, sent,
                   handled>>
    /\ UNCHANGED <<ever_error, otherVars>>

\* The flush call has returned fl.ret to its caller.
FlushReturn ==
    /\ fl.pc = "ret"
    /\ fl' = FlushIdle
    /\ UNCHANGED <<kind, max_writers, nr_writers, created, flags, recover, wr,
                   tx_packets, rx_packets, tx_inflight, rx_inflight,
                   tx_pending, rx_pending, tx, rx, pkt, sub, leader_idx, sent,
                   handled>>
    /\ UNCHANGED <<ever_error, otherVars>>

\* ------------------------------------------- cfs_extent_*_release -------
\* writer.c:59-68, reader.c:65-74: cancel_work_sync on both work items, drop
\* the partition reference, release the session, kfree.  The code reads the
\* fields through the pointer it was given, whether or not it is still valid.
RelFree(r, o) ==
    [r EXCEPT !.cancels[o] = @ + 1, !.dp_refs = @ - 1, !.socks[o] = @ + 1,
              !.frees[o] = @ + 1, !.alive[o] = FALSE]

\* cfs_extent_writer_release(writer), writer.c:55-69.
WriterRelease(r, o) == IF o = NULL THEN r ELSE RelFree(r, o)

\* cfs_extent_reader_release(reader), reader.c:57-75: the recovery reader
\* first, then the reader itself.
RECURSIVE ReaderRelease(_, _)
ReaderRelease(r, o) ==
    IF o = NULL THEN r
    ELSE LET c == r.recover[o]
             r1 == IF c # NULL
                   THEN [ReaderRelease(r, c) EXCEPT !.recover[o] = NULL]
                   ELSE r
         IN RelFree(r1, o)

\* The caller's bookkeeping of a release call on pointer o.
RelCalled(o) == [rel EXCEPT !.calls[o] = @ + 1, !.ncalls = @ + 1]

\* A release call on a pointer whose object was already freed is a use after
\* free: either the freed memory still reads as it was left and the function
\* runs on it again, or the kernel faults.
RelOutcome(o, done) ==
    IF rel.alive[o] THEN rel' = done
    ELSE \/ rel' = done
         \/ rel' = [RelCalled(o) EXCEPT !.oops = TRUE]

\* The stream calls cfs_extent_writer_release on one of its writers.
CfsExtentWriterRelease(o) ==
    /\ ~rel.oops
    /\ rel.ncalls < MaxReleaseCalls
    /\ RelOutcome(o, WriterRelease(RelCalled(o), o))
    /\ UNCHANGED <<pipeVars, http, vfs, cache, core>>

\* The stream calls cfs_extent_reader_release on its reader.
CfsExtentReaderRelease(o) ==
    /\ ~rel.oops
    /\ rel.ncalls < MaxReleaseCalls
    /\ RelOutcome(o, ReaderRelease(RelCalled(o), o))
    /\ UNCHANGED <<pipeVars, http, vfs, cache, core>>

\* A release call with a NULL pointer (writer.c:57-58, reader.c:59-60).
ReleaseNull ==
    /\ ~rel.oops
    /\ rel.ncalls < MaxReleaseCalls
    /\ rel' = WriterRelease([rel EXCEPT !.ncalls = @ + 1], NULL)
    /\ UNCHANGED <<pipeVars, http, vfs, cache, core>>

\* reader.c:163-167: a failed retry releases the recovery reader and resets
\* reader->recover.
ReaderDropRecover(o) ==
    /\ ~rel.oops
    /\ rel.alive[o]
    /\ rel.recover[o] # NULL
    /\ rel' = [ReaderRelease(RelCalled(rel.recover[o]), rel.recover[o])
                  EXCEPT !.recover[o] = NULL, !.ncalls = rel.ncalls]
    /\ UNCHANGED <<pipeVars, http, vfs, cache, core>>

\* ------------------------- release while the work items may be active ---
\* cancel_work_sync(work): a queued run is taken off the work queue, and the
\* call returns only when the work item is not running.
CancelWorkNoSync(pc) == TRUE
CancelWorkSync(pc) == pc = "idle"

\* The order of the steps of one release call.
ReleaseAfterCall == IF kind = "reader" THEN "recover" ELSE "cancel_tx"

\* The owner hands writer or reader w to cfs_extent_writer_release /
\* cfs_extent_reader_release; it has no request call on w under way and
\* makes none afterwards (writer.c:55-58, reader.c:57-60).
ReleaseCall(w) ==
    /\ rel.pc = "idle"
    /\ ~rel.oops
    /\ IsWriter(w) \/ IsReader(w)
    /\ sub.w # w
    /\ rel' = [rel EXCEPT !.pc = ReleaseAfterCall, !.w = w]
    /\ UNCHANGED <<pipeVars, http, vfs, cache, core>>

\* reader.c:61-64: the recovery reader, which has no packets and no work
\* queued, is released whole, then reader->recover is reset.
ReleaseRecover ==
    /\ rel.pc = "recover"
    /\ rel' = [rel EXCEPT !.pc = "cancel_tx",
                          !.steps = IF recover[rel.w] # NULL
                                    THEN Append(@, "recover") ELSE @]
    /\ wr' = IF recover[rel.w] # NULL
             THEN [wr EXCEPT ![recover[rel.w]] = NoWriter] ELSE wr
    /\ recover' = [recover EXCEPT ![rel.w] = NULL]
    /\ UNCHANGED <<kind, max_writers, nr_writers, created, flags, tx_packets,
                   rx_packets, tx_inflight, rx_inflight, tx_pending,
                   rx_pending, tx, rx, pkt, sub, fl, leader_idx, sent,
                   handled, ever_error, http, vfs, cache, core>>

\* writer.c:59, reader.c:65: cancel_work_sync(&tx_work).
ReleaseCancelTx ==
    /\ rel.pc = "cancel_tx"
    /\ CancelWorkSync(tx[rel.w].pc)
    /\ tx_pending' = [tx_pending EXCEPT ![rel.w] = FALSE]
    /\ rel' = [rel EXCEPT !.pc = "cancel_rx", !.steps = Append(@, "cancel_tx")]
    /\ UNCHANGED <<kind, max_writers, nr_writers, created, flags, recover, wr,
                   tx_packets, rx_packets, tx_inflight, rx_inflight,
                   rx_pending, tx, rx, pkt, sub, fl, leader_idx, sent,
                   handled, ever_error, http, vfs, cache, core>>

\* writer.c:60, reader.c:66: cancel_work_sync(&rx_work).
ReleaseCancelRx ==
    /\ rel.pc = "cancel_rx"
    /\ CancelWorkSync(rx[rel.w].pc)
    /\ rx_pending' = [rx_pending EXCEPT ![rel.w] = FALSE]
    /\ rel' = [rel EXCEPT !.pc = "dp", !.steps = Append(@, "cancel_rx")]
    /\ UNCHANGED <<kind, max_writers, nr_writers, created, flags, recover, wr,
                   tx_packets, rx_packets, tx_inflight, rx_inflight,
                   tx_pending, tx, rx, pkt, sub, fl, leader_idx, sent,
                   handled, ever_error, http, vfs, cache, core>>

\* writer.c:61, reader.c:67: cfs_data_partition_release(dp).
ReleaseDataPartition ==
    /\ rel.pc = "dp"
    /\ rel' = [rel EXCEPT !.pc = "sock", !.steps = Append(@, "dp"),
                          !.dp_refs = @ - 1]
    /\ UNCHANGED <<pipeVars, http, vfs, cache, core>>

\* writer.c:62-66, reader.c:68-72: cfs_rdma_release / cfs_socket_release.
ReleaseSession ==
    /\ rel.pc = "sock"
    /\ rel' = [rel EXCEPT !.pc = "kfree", !.steps = Append(@, "sock")]
    /\ UNCHANGED <<pipeVars, http, vfs, cache, core>>

\* writer.c:68, reader.c:74: kfree.
ReleaseFree ==
    /\ rel.pc = "kfree"
    /\ rel' = [rel EXCEPT !.pc = "done", !.steps = Append(@, "kfree")]
    /\ UNCHANGED <<pipeVars, http, vfs, cache, core>>

\* ------------------------------------------------ cfs_init, cfs_exit ----
\* cfs_core.c:15-63: the next step of cfs_init succeeds, or fails and sends
\* cfs_init to the label `exit`; after the last step cfs_init returns 0.
CfsInitStep ==
    /\ core.pc = "init"
    /\ \/ core' = [core EXCEPT !.up = @ \cup {InitSteps[core.step]},
                                !.step = IF core.step = Len(InitSteps)
                                         THEN 1 ELSE @ + 1,
                                !.pc = IF core.step = Len(InitSteps)
                                       THEN "loaded" ELSE "init"]
       \/ \E e \in InitErrors :
            core' = [core EXCEPT !.pc = "exit", !.step = 1, !.ret = e,
                                 !.failed_at = InitSteps[core.step]]
    /\ UNCHANGED <<pipeVars, rel, http, vfs, cache>>

\* cfs_core.c:66-74: one module exit call of the error path; after the last
\* one cfs_init returns ret.
CfsInitExitStep ==
    /\ core.pc = "exit"
    /\ core' = [core EXCEPT !.up = @ \ {InitExitCalls[core.step]},
                            !.step = IF core.step = Len(InitExitCalls)
                                     THEN 1 ELSE @ + 1,
                            !.pc = IF core.step = Len(InitExitCalls)
                                   THEN "failed" ELSE "exit"]
    /\ UNCHANGED <<pipeVars, rel, http, vfs, cache>>

\* cfs_core.c:80-84: cfs_exit begins with unregister_filesystem and returns
\* at once when that fails.
CfsExitUnregister ==
    /\ core.pc = "loaded"
    /\ \/ core' = [core EXCEPT !.pc = "unload", !.up = @ \ {"fs_type"}]
       \/ \E e \in InitErrors : core' = [core EXCEPT !.pc = "unloaded", !.ret = e]
    /\ UNCHANGED <<pipeVars, rel, http, vfs, cache>>

\* cfs_core.c:85-92: one module exit call of cfs_exit.
CfsExitStep ==
    /\ core.pc = "unload"
    /\ core' = [core EXCEPT !.up = @ \ {ExitCalls[core.step]},
                            !.step = IF core.step = Len(ExitCalls)
                                     THEN 1 ELSE @ + 1,
                            !.pc = IF core.step = Len(ExitCalls)
                                   THEN "unloaded" ELSE "unload"]
    /\ UNCHANGED <<pipeVars, rel, http, vfs, cache>>

\* ------------------------------------------------- do_http_request -----
\* Entry of do_http_request on a client with num configured hosts: ret = -1,
\* max = hosts.num, i = prandom_u32() % hosts.num.
DoHttpRequestEnter ==
    /\ http.pc = "idle"
    /\ \E num \in 1 .. MaxHosts : \E start \in 0 .. (num - 1) :
         http' = [HttpIdle EXCEPT !.pc = "loop", !.num = num,
                                  !.start = start, !.i = start,
                                  !.max = num, !.ret = EPERM]
    /\ UNCHANGED <<pipeVars, rel, vfs, cache, core>>

\* One iteration of while (max-- > 0), up to the continue or the return 0,
\* and the return ret that follows the last failed iteration.
DoHttpRequestAttempt ==
    /\ http.pc = "loop"
    /\ http.max > 0
    /\ \E a \in Attempts :
         LET r == DoRecvHttpResponse(a.reply)
             ret == IF a.step = "recv" THEN r.ret ELSE a.err
         IN  http' = [http EXCEPT
                        !.tried = Append(@, http.i),
                        !.i = NextHost(http.i, http.num),
                        !.max = @ - 1,
                        !.ret = ret,
                        !.response = IF a.step = "recv" THEN r.response
                                     ELSE @,
                        !.last = [step |-> a.step, ret |-> ret,
                                  reply |-> a.reply],
                        !.pc = IF ret = OK \/ http.max = 1 THEN "done"
                               ELSE "loop"]
    /\ UNCHANGED <<pipeVars, rel, vfs, cache, core>>

\* The caller takes the result; on success it uses and clears the response
\* (master.c:419-446).
DoHttpRequestReturn ==
    /\ http.pc = "done"
    /\ http' = HttpIdle
    /\ UNCHANGED <<pipeVars, rel, vfs, cache, core>>

\* ---------------------------------------------- directory operations ---
\* cfs_create, cfs_link, cfs_symlink, cfs_mkdir, cfs_mknod and cfs_rename
\* share one shape: refresh the directory, check the link limit, (for the
\* four creating calls, refresh again when quota is enabled and its cache
\* expired), send the meta request. get and n are the result of the first
\* cfs_meta_get and the link count it reports, get2 and n2 those of the
\* second, req the result of the meta request, inode_ok that of
\* cfs_inode_new.
DirOp(op) ==
    LET base == [NoLast EXCEPT !.op = op]
        drops == op \in {"link", "rename"}
        creates == MetaRequestOf(op) = "create"
    IN  \E rflags \in IF op = "rename" THEN {0, 1} ELSE {0} :
        \E get \in IF rflags = 0 THEN {OK, EIO} ELSE {OK} :
        \E n \in IF rflags = 0 /\ get = OK THEN LinkCounts ELSE {vfs.nlink} :
        LET pass == rflags = 0 /\ get = OK
                       /\ ~IsLinksExceedLimit(n, vfs.links_limit)
        IN  \E requota \in IF pass /\ creates THEN BOOLEAN ELSE {FALSE} :
            \E get2 \in IF requota THEN {OK, EIO} ELSE {OK} :
            \E n2 \in IF requota /\ get2 = OK THEN LinkCounts ELSE {n} :
            \E req \in IF pass THEN {OK, EIO} ELSE {OK} :
            \E inode_ok \in IF pass /\ creates /\ req = OK THEN BOOLEAN
                            ELSE {TRUE} :
               LET ret == IF inode_ok THEN req ELSE ENOMEM
               IN  IF rflags # 0
                   THEN vfs' = [vfs EXCEPT
                                  !.last = [base EXCEPT !.flags = rflags,
                                                        !.ret = EINVAL]]
                   ELSE IF get # OK
                   THEN vfs' = [vfs EXCEPT
                                  !.d_hashed = IF drops THEN FALSE ELSE @,
                                  !.last = [base EXCEPT !.ret = get,
                                                        !.meta = <<"get">>]]
                   ELSE IF ~pass
                   THEN vfs' = [vfs EXCEPT
                                  !.nlink = n,
                                  !.d_hashed = IF drops THEN FALSE ELSE @,
                                  !.last = [base EXCEPT
                                              !.ret = EDQUOT,
                                              !.meta = <<"get">>,
                                              !.seen = n,
                                              !.limit = vfs.links_limit]]
                   ELSE vfs' = [vfs EXCEPT
                                  !.nlink = n2,
                                  !.d_inode = IF ret = OK /\ op # "rename"
                                              THEN TRUE ELSE @,
                                  !.revalidate_jiffies =
                                      IF ret = OK /\ creates
                                      THEN vfs.jiffies ELSE @,
                                  !.d_hashed = IF ret # OK /\ drops
                                               THEN FALSE ELSE @,
                                  !.last = [base EXCEPT
                                              !.ret = ret,
                                              !.meta =
                                                  IF requota
                                                  THEN <<"get", "get",
                                                         MetaRequestOf(op)>>
                                                  ELSE <<"get",
                                                         MetaRequestOf(op)>>,
                                              !.seen = n,
                                              !.limit = vfs.links_limit]]

CfsCreate ==
    /\ DirOp("create")
    /\ UNCHANGED <<pipeVars, rel, http, cache, core>>

CfsLink ==
    /\ DirOp("link")
    /\ UNCHANGED <<pipeVars, rel, http, cache, core>>

CfsSymlink ==
    /\ DirOp("symlink")
    /\ UNCHANGED <<pipeVars, rel, http, cache, core>>

CfsMkdir ==
    /\ DirOp("mkdir")
    /\ UNCHANGED <<pipeVars, rel, http, cache, core>>

CfsMknod ==
    /\ DirOp("mknod")
    /\ UNCHANGED <<pipeVars, rel, http, cache, core>>

CfsRename ==
    /\ DirOp("rename")
    /\ UNCHANGED <<pipeVars, rel, http, cache, core>>

\* cfs_d_revalidate(dentry, flags) on a dentry found in the dentry cache;
\* reply is what cfs_meta_get would answer.
CfsDRevalidate ==
    /\ vfs.d_hashed
    /\ \E rcu \in BOOLEAN :
       \E reply \in IF ~rcu /\ vfs.d_inode
                       /\ ~IsDentryCacheValid(vfs.revalidate_jiffies,
                                              vfs.jiffies)
                    THEN MetaResults ELSE {OK} :
         LET base == [NoLast EXCEPT !.op = "d_revalidate", !.rcu = rcu,
                                    !.inode = vfs.d_inode,
                                    !.window =
                                        vfs.revalidate_jiffies
                                          + DentryCacheValidJiffies
                                            > vfs.jiffies,
                                    !.reply = reply]
         IN  IF rcu
             THEN vfs' = [vfs EXCEPT !.last = [base EXCEPT !.ret = ECHILD]]
             ELSE IF ~vfs.d_inode
             THEN vfs' = [vfs EXCEPT !.last = [base EXCEPT !.ret = "valid"]]
             ELSE IF ~IsDentryCacheValid(vfs.revalidate_jiffies, vfs.jiffies)
             THEN vfs' = [vfs EXCEPT
                            !.revalidate_jiffies =
                                IF reply \in {OK, ENOENT} THEN vfs.jiffies
                                ELSE @,
                            !.last = [base EXCEPT
                                        !.meta = <<"get">>,
                                        !.ret = IF reply = ENOENT
                                                THEN "invalid"
                                                ELSE "valid"]]
             ELSE vfs' = [vfs EXCEPT !.last = [base EXCEPT !.ret = "valid"]]
    /\ UNCHANGED <<pipeVars, rel, http, cache, core>>

\* cfs_lookup(dir, dentry, flags) on a new dentry; reply is what
\* cfs_meta_lookup would answer, is_new whether iget_locked returned a new
\* inode.
CfsLookup ==
    /\ \E toolong \in BOOLEAN :
       \E reply \in IF toolong THEN {OK} ELSE MetaResults :
       \E inode_ok \in IF ~toolong /\ reply = OK THEN BOOLEAN ELSE {TRUE} :
       \E is_new \in IF ~toolong /\ reply = OK /\ inode_ok THEN BOOLEAN
                     ELSE {TRUE} :
         LET base == [NoLast EXCEPT !.op = "lookup", !.reply = reply]
             asked == [base EXCEPT !.meta = <<"lookup">>]
         IN  IF toolong
             THEN vfs' = [vfs EXCEPT
                            !.d_hashed = FALSE, !.d_inode = FALSE,
                            !.last = [base EXCEPT !.ret = ENAMETOOLONG]]
             ELSE IF reply = ENOENT \/ (reply = OK /\ ~inode_ok)
             THEN vfs' = [vfs EXCEPT
                            !.d_hashed = TRUE, !.d_inode = FALSE,
                            !.last = asked]
             ELSE IF reply # OK
             THEN vfs' = [vfs EXCEPT
                            !.d_hashed = FALSE, !.d_inode = FALSE,
                            !.last = [asked EXCEPT !.ret = reply]]
             ELSE vfs' = [vfs EXCEPT
                            !.d_hashed = TRUE, !.d_inode = TRUE,
                            !.revalidate_jiffies =
                                IF is_new THEN vfs.jiffies ELSE @,
                            !.last = asked]
    /\ UNCHANGED <<pipeVars, rel, http, cache, core>>

\* update_limit_work_cb: a link limit below CFS_LINKS_MIN is replaced by the
\* default.
UpdateLimitWorkCb ==
    /\ \E ret \in {OK, EIO}, links_limit \in ReportedLimits :
         vfs' = [vfs EXCEPT
                   !.links_limit =
                       IF ret # OK THEN @
                       ELSE IF links_limit < CFS_LINKS_MIN
                            THEN CFS_LINKS_DEFAULT ELSE links_limit]
    /\ UNCHANGED <<pipeVars, rel, http, cache, core>>

\* The timer interrupt advances jiffies.
JiffiesTick ==
    /\ vfs.jiffies < DentryCacheValidJiffies + MaxTicks
    /\ vfs' = [vfs EXCEPT !.jiffies = @ + 1]
    /\ UNCHANGED <<pipeVars, rel, http, cache, core>>

\* ------------------------------------------------- cfs_iterate_dir ----
\* cfs_open on the directory: a new cfs_file_info (cfs_fs.c:542-556).
CfsOpenDir ==
    /\ vfs.cfi.pc = "idle"
    /\ vfs.cfi # CfiInit
    /\ vfs' = [vfs EXCEPT !.cfi = CfiInit]
    /\ UNCHANGED <<pipeVars, rel, http, cache, core>>

\* cfs_fs.c:669-683: "." and "..", then the entries still buffered from the
\* previous call; a full caller buffer ends the call with ret = 0.
CfsIterateDirEnter ==
    /\ vfs.cfi.pc = "idle"
    /\ \E dots \in BOOLEAN :
       \E stop \in IF dots
                   THEN EmitStops(vfs.cfi.denties_offset, vfs.cfi.num)
                   ELSE {vfs.cfi.denties_offset} :
         vfs' = [vfs EXCEPT
                   !.cfi = [EmitLoop(vfs.cfi, vfs.cfi.base,
                                     vfs.cfi.denties_offset, stop)
                              EXCEPT
                                !.ret = OK,
                                !.pc = IF dots /\ stop >= vfs.cfi.num
                                          /\ ~vfs.cfi.done
                                       THEN "loop" ELSE "out"]]
    /\ UNCHANGED <<pipeVars, rel, http, cache, core>>

\* cfs_fs.c:712-789, one pass of while (!cfi->done): the marker moves to the
\* last buffered name, cfs_meta_readdir fetches the next entries,
\* cfs_meta_batch_get their inodes, and the entries are emitted. mk, ia: the
\* allocations of the marker and of the inode number array succeed; rd, bg:
\* results of the two meta requests; n: entries delivered.
CfsIterateDirBatch ==
    /\ vfs.cfi.pc = "loop"
    /\ \E mk \in IF vfs.cfi.num > 0 THEN BOOLEAN ELSE {TRUE} :
       \E rd \in IF mk THEN {OK, EIO} ELSE {OK} :
       \E n \in IF mk /\ rd = OK
                THEN IF vfs.cfi.fetched < MaxDirBatches * READDIR_NUM
                     THEN ReaddirCounts ELSE ReaddirCounts \ {READDIR_NUM}
                ELSE {0} :
       \E ia \in IF mk /\ rd = OK THEN BOOLEAN ELSE {TRUE} :
       \E bg \in IF mk /\ rd = OK /\ ia THEN {OK, EIO} ELSE {OK} :
       \E stop \in IF mk /\ rd = OK /\ ia /\ bg = OK THEN EmitStops(0, n)
                   ELSE {vfs.cfi.denties_offset} :
         LET c == vfs.cfi
             is_done == n < READDIR_NUM
             after == IF c.num > 0 THEN c.base + c.num ELSE c.after
             got == [c EXCEPT !.marker = TRUE, !.after = after,
                              !.base = after, !.num = n, !.done = is_done,
                              !.fetched = IF after + n > @ THEN after + n
                                          ELSE @]
         IN  vfs' = [vfs EXCEPT !.cfi =
                 IF ~mk
                 THEN [c EXCEPT !.marker = FALSE, !.ret = ENOMEM, !.pc = "out"]
                 ELSE IF rd # OK
                 THEN [c EXCEPT !.marker = TRUE, !.after = after,
                                !.base = after, !.num = 0, !.ret = rd,
                                !.pc = "out"]
                 ELSE IF ~ia
                 THEN [got EXCEPT !.ret = ENOMEM, !.pc = "out"]
                 ELSE IF bg # OK
                 THEN [got EXCEPT !.ret = bg, !.pc = "out"]
                 ELSE [EmitLoop(got, after, 0, stop) EXCEPT
                                !.ret = OK,
                                !.pc = IF stop < n \/ is_done THEN "out"
                                       ELSE "loop"]]
    /\ UNCHANGED <<pipeVars, rel, http, cache, core>>

\* cfs_fs.c:791-799: the label out logs ret; the function returns 0.
CfsIterateDirReturn ==
    /\ vfs.cfi.pc = "out"
    /\ vfs' = [vfs EXCEPT
                 !.cfi.pc = "idle",
                 !.last = [NoLast EXCEPT !.op = "iterate_dir",
                                         !.reply = vfs.cfi.ret,
                                         !.ret = OK]]
    /\ UNCHANGED <<pipeVars, rel, http, cache, core>>

\* ---------------------------------------------------- extent cache -----
\* An append from outside the flush (the stream records the extents it
\* learned from the meta node); its discards are dropped by the caller.
CfsExtentCacheAppend ==
    /\ \E ext \in Extents :
         LET c == ExtentCacheAppend(cache, ext)
         IN  cache' = [cache EXCEPT !.extents = c.extents,
                                    !.size_hint = c.size_hint]
    /\ UNCHANGED <<pipeVars, rel, http, vfs, core>>

\* The stream truncates the cache.
CfsExtentCacheTruncate ==
    /\ \E size \in 0 .. MaxFileBlocks :
         LET c == ExtentCacheTruncate(cache, size)
         IN  cache' = [cache EXCEPT !.extents = c.extents,
                                    !.size_hint = c.size_hint]
    /\ UNCHANGED <<pipeVars, rel, http, vfs, core>>

\* writer.c:86-94: the flush builds the writer's descriptor (file_offset,
\* dp->id, ext_id, 0, ext_size) and appends it with sync = true; a failed
\* append ends the flush.
FlushCacheAppend ==
    /\ cache.pc = "idle"
    /\ \E ext \in Extents, ok \in BOOLEAN :
         LET c == ExtentCacheAppend(cache, ext)
         IN  cache' = IF ok
                      THEN [cache EXCEPT !.extents = c.extents,
                                         !.size_hint = c.size_hint,
                                         !.discard = c.discard,
                                         !.pc = "meta"]
                      ELSE cache
    /\ UNCHANGED <<pipeVars, rel, http, vfs, core>>

\* writer.c:95-106: cfs_meta_append_extent; when it fails the discard array is
\* cleared and the flush ends, otherwise remove_discard runs on the cache.
FlushMetaAppendExtent ==
    /\ cache.pc = "meta"
    /\ \E ok \in BOOLEAN :
         LET c == ExtentCacheRemoveDiscard(cache, cache.discard)
         IN  cache' = IF ok
                      THEN [cache EXCEPT !.extents = c.extents,
                                         !.discard = {}, !.pc = "idle"]
                      ELSE [cache EXCEPT !.discard = {}, !.pc = "idle"]
    /\ UNCHANGED <<pipeVars, rel, http, vfs, core>>

\* ------------------------------------------------------ specifications --
\* xmit counts every time a packet is put on the wire: the send on the
\* object's own session, each do_extent_request of the writer's recovery and
\* each do_extent_request_retry of the reader's.
\*
\* The pipelines: the caller submits to any writer (or to the reader) while
\* the tx and rx work items run.
Next ==
    \/ \E w \in WIDs : SubmitBegin(w)
    \/ SubmitEnqueue
    \/ SubmitSchedule
    \/ \E w \in WIDs : TxTask(w)
    \/ \E w \in WIDs : RxTask(w)

Spec == Init /\ [][Next]_vars

\* The pipelines with a second caller that flushes any writer (or the reader)
\* at any time; the submitting caller writes through the stream's first writer.
NextFlush ==
    \/ SubmitBegin(1)
    \/ SubmitEnqueue
    \/ SubmitSchedule
    \/ \E w \in WIDs : TxTask(w)
    \/ \E w \in WIDs : RxTask(w)
    \/ \E w \in WIDs : FlushCall(w)
    \/ FlushWaitTx
    \/ FlushWaitRx
    \/ FlushPersist
    \/ FlushReturn

SpecFlush == Init /\ [][NextFlush]_vars

\* The pipelines of the stream's first writer (or of the reader) with an owner
\* that releases it at any time after its last request call returned.
NextReleaseTasks ==
    \/ (rel.pc = "idle" /\ SubmitBegin(1))
    \/ SubmitEnqueue
    \/ SubmitSchedule
    \/ \E w \in WIDs : TxTask(w)
    \/ \E w \in WIDs : RxTask(w)
    \/ ReleaseCall(1)
    \/ ReleaseRecover
    \/ ReleaseCancelTx
    \/ ReleaseCancelRx
    \/ ReleaseDataPartition
    \/ ReleaseSession
    \/ ReleaseFree

SpecReleaseTasks == Init /\ [][NextReleaseTasks]_vars

\* Loading and unloading the module.
NextCore ==
    \/ CfsInitStep
    \/ CfsInitExitStep
    \/ CfsExitUnregister
    \/ CfsExitStep

SpecCore == Init /\ [][NextCore]_vars

\* ------------------------------------------------------------- claims ----
Range(q) == {q[i] : i \in 1 .. Len(q)}
Ascending(q) == \A i, j \in 1 .. Len(q) : i < j => q[i] < q[j]

\* The packet is in a queue of its writer/reader, in the hands of a work item,
\* or its submitter has not yet put it on tx_packets.
InFlight(p) ==
    \/ (sub.p = p /\ sub.pc = "add")
    \/ \E w \in WIDs : \/ p \in Range(tx_packets[w])
                       \/ p \in Range(rx_packets[w])
                       \/ tx[w].pkt = p
                       \/ rx[w].pkt = p

\* The tx work item has not yet taken the packet off tx_packets.
BeforeTx(p) == (sub.p = p /\ sub.pc = "add") \/ \E w \in WIDs : p \in Range(tx_packets[w])

\* C1: packets submitted to one writer are sent on its session in submission
\* order (packets are numbered in submission order), and while the writer has
\* neither RECOVER nor ERROR every packet the tx task has passed on was sent.
C1_TxSendsInSubmissionOrder ==
    \A w \in WIDs :
        /\ Ascending(sent[w])
        /\ \A p \in Range(sent[w]) : pkt[p].w = w
        /\ (kind = "writer" /\ flags[w] = {} /\ tx[w].pc # "st") =>
              \A p \in PIDs :
                 (pkt[p].w = w /\ ~BeforeTx(p)
                    /\ ~(tx[w].pkt = p /\ tx[w].pc = "send"))
                 => p \in Range(sent[w])

\* Two packets went out on one writer's session, no flag set.
C1_Witness ==
    \E w \in WIDs : kind = "writer" /\ Len(sent[w]) = 2 /\ flags[w] = {}

\* C2: on one writer the rx task runs the continuations in submission order,
\* recovered packets included: the log is ascending and a packet's
\* continuation runs only after those of the writer's earlier packets.
C2_RxHandlesInSubmissionOrder ==
    \A w \in WIDs :
        kind = "writer" =>
        /\ Ascending(handled[w])
        /\ \A p \in Range(handled[w]) :
              \A q \in PIDs : (q < p /\ pkt[q].w = w) => q \in Range(handled[w])

\* Two packets of one writer handled, the first after a recovery re-issue.
C2_Witness ==
    \E w \in WIDs :
        /\ kind = "writer"
        /\ Len(handled[w]) = 2
        /\ pkt[handled[w][1]].retry_count > 0

\* C3: a submitted packet's continuation runs at most once, the packet is
\* released at most once and only after the continuation, and a packet that
\* has left the pipeline had both exactly once; on every path, for writers
\* and readers.
C3_HandledAndReleasedOnce ==
    \A p \in PIDs :
        pkt[p].w # NULL =>
        /\ pkt[p].handled <= 1
        /\ pkt[p].released <= 1
        /\ pkt[p].released = 1 => pkt[p].handled = 1
        /\ pkt[p].handled = 1 =>
              \/ pkt[p].released = 1
              \/ \E w \in WIDs : rx[w].pkt = p /\ rx[w].pc = "rel"
        /\ ~InFlight(p) => (pkt[p].handled = 1 /\ pkt[p].released = 1)
        /\ InFlight(p) => pkt[p].released = 0

\* A packet whose recovery ran out of retries was handled and released once.
C3_Witness ==
    \E p \in PIDs :
        /\ pkt[p].retry_count > REQUEST_RETRY_MAX
        /\ pkt[p].handled = 1 /\ pkt[p].released = 1 /\ ~InFlight(p)

\* C4: no packet is put on the wire more than REQUEST_RETRY_MAX + 1 times,
\* the original send and the recovery's re-issues counted together.
C4_AtMostRetryMaxPlusOneTransmissions ==
    \A p \in PIDs : pkt[p].xmit <= REQUEST_RETRY_MAX + 1

\* C5: no step changes the kernel_offset or the size of a submitted packet's
\* request: recovery rewrites only pid, ext_id, ext_offset, remaining_followers
\* and the argument.
C5_RecoveryKeepsKernelOffset ==
    [][\A p \in PIDs :
          pkt[p].w # NULL =>
             /\ pkt'[p].kernel_offset = pkt[p].kernel_offset
             /\ pkt'[p].size = pkt[p].size
             /\ pkt'[p].w = pkt[p].w]_vars

\* A packet at a nonzero offset was re-issued REQUEST_RETRY_MAX + 1 times, to
\* successive recovery writers, and the last re-issue succeeded.
C5_Witness ==
    \E p \in PIDs :
        /\ pkt[p].retry_count = REQUEST_RETRY_MAX + 1
        /\ pkt[p].private # pkt[p].w
        /\ pkt[p].kernel_offset > 0
        /\ pkt[p].ext_id = pkt[p].private

\* C6: when cfs_extent_writer_flush returns success, no packet whose submit
\* had returned before the flush call is still queued or unhandled, and,
\* unless a submit began after those, both inflight counters are 0.
C6_FlushReturnsDrained ==
    [][(kind = "writer" /\ fl.pc # "ret" /\ fl'.pc = "ret" /\ fl'.ret = OK) =>
          /\ \A p \in PIDs :
                (p <= fl'.pre /\ pkt'[p].w = fl'.w) =>
                   (pkt'[p].handled = 1 /\ pkt'[p].released = 1)
          /\ SubmitsStarted' = fl'.pre =>
                (tx_inflight'[fl'.w] = 0 /\ rx_inflight'[fl'.w] = 0)]_vars

\* C7: the tx task makes no send on a writer's session while the writer's
\* RECOVER flag is set.
C7_NoSendAfterRecover ==
    [][\A w \in WIDs :
          (kind = "writer" /\ tx[w].pc = "send" /\ tx'[w].pc # "send") =>
             F_RECOVER \notin flags[w]]_vars

\* C8: nr_writers never exceeds max_writers.
C8_WritersWithinCap == kind = "writer" => nr_writers <= max_writers

\* C9: when extent_writer_recover has returned -EIO because the retries ran
\* out, the packet's error is -EIO when its continuation runs.
C9_RetriesExhaustedGivesIo ==
    \A w \in WIDs :
        (kind = "writer" /\ rx[w].pc = "handle" /\ rx[w].ret = EIO
           /\ pkt[rx[w].pkt].retry_count > REQUEST_RETRY_MAX)
        => pkt[rx[w].pkt].error = EIO

\* C10: a send of the writer's tx task that failed with -ENOMEM sets ERROR.
C10_TxOutOfMemorySetsError ==
    \A w \in WIDs :
        (kind = "writer" /\ tx[w].pc = "st" /\ tx[w].ret = ENOMEM)
        => tx[w].set = F_ERROR

\* C11: once ERROR has been set on a writer, every packet its rx task takes
\* off rx_packets afterwards gets error -EIO and goes straight to its
\* continuation: no receive, no recovery.
C11_ErrorDrainsWithIo ==
    [][\A w \in WIDs :
          (kind = "writer" /\ ever_error[w] /\ rx[w].pc = "deq"
             /\ rx'[w].pkt # NULL)
          => (pkt'[rx'[w].pkt].error = EIO /\ rx'[w].pc = "handle")]_vars

\* C12: a writer's RECOVER and ERROR flags, once set, stay set.
C12_FlagsOneWay ==
    [][\A w \in WIDs : kind = "writer" => flags[w] \subseteq flags'[w]]_vars

\* Releasing writers and readers, in any order and repeatedly.
NextRelease ==
    \/ \E o \in RelWriters : CfsExtentWriterRelease(o)
    \/ CfsExtentReaderRelease(RelReader)
    \/ ReleaseNull
    \/ ReaderDropRecover(RelReader)

SpecRelease == Init /\ [][NextRelease]_vars

\* C13: a second release call on the same writer or reader is a no-op: it
\* touches no work item, partition reference or session and changes no state.
C13_SecondReleaseIsNoOp ==
    [][\A o \in RelObjs :
          (rel.calls[o] >= 1 /\ rel'.calls[o] = rel.calls[o] + 1) =>
             /\ rel'.cancels = rel.cancels
             /\ rel'.dp_refs = rel.dp_refs
             /\ rel'.socks = rel.socks
             /\ rel'.frees = rel.frees
             /\ rel'.alive = rel.alive
             /\ rel'.recover = rel.recover
             /\ ~rel'.oops]_vars

\* C14: a reader's host index is below the replica count; a receive failure
\* or non-OK result makes the rx task store RECOVER and enter recovery; a
\* reader without a recovery reader then gets one (or the allocation fails
\* with -ENOMEM) on the same partition and extent at host index
\* (host_idx + 1) mod replica count.
C14_ReaderRecoversOnNextHost ==
    [][kind = "reader" =>
         \A w \in WIDs :
            /\ wr[w].host_idx < ReplicaCount
            /\ wr'[w].host_idx < ReplicaCount
            /\ (rx[w].pc = "recv" /\ rx'[w].pc \notin {"recv", "handle"}) =>
                  (rx'[w].pc = "st" /\ rx'[w].set = F_RECOVER
                     /\ rx'[w].next = "rrec")
            /\ (rx[w].pc = "st" /\ rx[w].set = F_RECOVER /\ rx'[w].pc # "st")
                  => (F_RECOVER \in flags'[w] /\ rx'[w].pc = "rrec")
            /\ (rx[w].pc = "rrec" /\ recover[w] = NULL /\ rx'[w].pc # "rrec")
                  => \/ pkt'[rx[w].pkt].error = ENOMEM /\ recover'[w] = NULL
                     \/ /\ recover'[w] # NULL
                        /\ wr'[recover'[w]].dp = wr[w].dp
                        /\ wr'[recover'[w]].ext_id = wr[w].ext_id
                        /\ wr'[recover'[w]].host_idx
                              = (wr[w].host_idx + 1) % ReplicaCount]_vars

\* A reader on the partition's last member has a recovery reader, which is
\* on member 0.
C14_Witness ==
    /\ kind = "reader"
    /\ F_RECOVER \in flags[1]
    /\ recover[1] # NULL
    /\ wr[1].host_idx = ReplicaCount - 1
    /\ wr[recover[1]].host_idx = 0

NextMaster ==
    \/ DoHttpRequestEnter
    \/ DoHttpRequestAttempt
    \/ DoHttpRequestReturn

SpecMaster == Init /\ [][NextMaster]_vars

\* The reply of the latest attempt had a status line, a status code and a
\* body, and do_recv_http_response ran on it.
LastReplyComplete ==
    http.last.step = "recv" /\ http.last.reply \in CompleteReplies

\* C16: a complete response is accepted only with status 200 and a JSON body
\* whose code is 0; for every other complete response do_recv_http_response
\* returns EBADMSG and leaves the response cleared.
C16_RejectedResponseIsCleared ==
    LastReplyComplete =>
       LET reply == http.last.reply
           accepted == /\ reply.status = HTTP_STATUS_OK
                       /\ reply.json /\ reply.has_code /\ reply.code = 0
       IN  IF accepted THEN http.last.ret = OK
           ELSE http.last.ret = EBADMSG /\ http.response = HttpResponseInit

\* C17: once a host's response is a bad message, no other host is tried:
\* the call is over and returns EBADMSG.
C17_BadMessageNotRetried ==
    (http.last.step = "recv" /\ http.last.ret = EBADMSG)
       => (http.pc = "done" /\ http.ret = EBADMSG)

\* C18: do_http_request tries the hosts cyclically from its starting host,
\* each at most once; it returns 0 at the first accepted response; it returns
\* the last error after as many failed attempts as hosts; the attempts left
\* decrease with every attempt, so the call ends.
C18_HostsTriedCyclicallyOnce ==
    http.pc # "idle" =>
       /\ http.start \in 0 .. (http.num - 1)
       /\ Len(http.tried) + http.max = http.num
       /\ \A k \in 1 .. Len(http.tried) :
             http.tried[k] = (http.start + k - 1) % http.num
       /\ \A k, l \in 1 .. Len(http.tried) :
             http.tried[k] = http.tried[l] => k = l
       /\ http.pc = "loop" =>
             (http.max > 0 /\ (http.tried # <<>> => http.last.ret # OK))
       /\ http.pc = "done" =>
             /\ http.ret = http.last.ret
             /\ http.ret # OK => http.max = 0
             /\ http.ret = OK =>
                   (http.last.step = "recv" /\ http.response.json_body)

\* Every host failed, the first one tried was not host 0, and the call
\* returned the last host's error.
C18_Witness ==
    /\ http.pc = "done"
    /\ http.num = MaxHosts
    /\ http.start = 1
    /\ http.tried = <<1, 2, 0>>
    /\ http.ret = ECONNREFUSED

\* ----------------------------------------------- directory operations ---
NextFs ==
    \/ CfsCreate
    \/ CfsLink
    \/ CfsSymlink
    \/ CfsMkdir
    \/ CfsMknod
    \/ CfsRename
    \/ CfsDRevalidate
    \/ CfsLookup
    \/ UpdateLimitWorkCb
    \/ JiffiesTick

SpecFs == Init /\ [][NextFs]_vars

\* C19: create, link, symlink, mkdir, mknod and rename return EDQUOT and
\* send no create, link or rename request when the directory's link count
\* after the refresh is at or above the mount's links_limit; below the limit
\* they send the request.
C19_LinkLimitStopsBeforeMetaRequest ==
    (vfs.last.op \in DirOps /\ vfs.last.limit # 0) =>
       IF vfs.last.seen >= vfs.last.limit
       THEN vfs.last.ret = EDQUOT /\ vfs.last.meta = <<"get">>
       ELSE /\ vfs.last.ret # EDQUOT
            /\ vfs.last.meta[Len(vfs.last.meta)] = MetaRequestOf(vfs.last.op)

\* A rename found the directory's link count equal to the limit.
C19_Witness ==
    /\ vfs.last.op = "rename"
    /\ vfs.last.seen = vfs.last.limit
    /\ vfs.last.limit = CFS_LINKS_MIN
    /\ vfs.last.ret = EDQUOT
    /\ vfs.last.meta = <<"get">>

\* C20: cfs_d_revalidate reports the dentry invalid exactly when it has an
\* inode, the cache window has expired and cfs_meta_get answers ENOENT; it
\* reports it valid on success and on any other error, and sends nothing
\* while the window is valid; cfs_lookup that gets ENOENT installs a negative
\* dentry and returns no error.
C20_NotFoundInvalidatesDentry ==
    LET l == vfs.last
    IN  /\ (l.op = "d_revalidate" /\ ~l.rcu) =>
              /\ l.ret \in {"valid", "invalid"}
              /\ l.ret = "invalid" <=>
                    (l.inode /\ ~l.window /\ l.meta = <<"get">>
                       /\ l.reply = ENOENT)
              /\ (l.window \/ ~l.inode) => l.meta = <<>>
              /\ (l.inode /\ ~l.window) => l.meta = <<"get">>
        /\ (l.op = "lookup" /\ l.meta # <<>> /\ l.reply = ENOENT) =>
              (l.ret = OK /\ vfs.d_hashed /\ ~vfs.d_inode)

\* A revalidation after the window expired got ENOENT and reported the
\* dentry invalid.
C20_Witness ==
    /\ vfs.last.op = "d_revalidate"
    /\ vfs.last.ret = "invalid"
    /\ vfs.last.reply = ENOENT
    /\ vfs.last.meta = <<"get">>
    /\ vfs.revalidate_jiffies = vfs.jiffies

\* ---------------------------------------------- reading a directory -----
NextDir ==
    \/ CfsOpenDir
    \/ CfsIterateDirEnter
    \/ CfsIterateDirBatch
    \/ CfsIterateDirReturn

SpecDir == Init /\ [][NextDir]_vars

\* C21: a cfs_iterate_dir call in which cfs_meta_readdir or
\* cfs_meta_batch_get (or an allocation) failed returns that error to its
\* caller.
C21_IterateDirReturnsFailure ==
    (vfs.last.op = "iterate_dir" /\ vfs.last.reply # OK)
       => vfs.last.ret = vfs.last.reply

\* ------------------------------------------------------ extent cache ----
NextCache ==
    \/ CfsExtentCacheAppend
    \/ CfsExtentCacheTruncate
    \/ FlushCacheAppend
    \/ FlushMetaAppendExtent

SpecCache == Init /\ [][NextCache]_vars

\* C22: any two distinct descriptors of the cache cover disjoint file-offset
\* intervals, after any sequence of appends, truncates and flushes (append,
\* meta append_extent, remove_discard).
C22_CacheDescriptorsDisjoint ==
    \A a, b \in cache.extents : a # b => ~Intersects(a, b)

\* An append discarded an overlapping descriptor and the cache holds two
\* descriptors while a flush waits for the meta node.
C22_Witness ==
    /\ cache.pc = "meta"
    /\ cache.discard # {}
    /\ Cardinality(cache.extents) >= 2

\* ------------------------------------------------- the tx task's duty ---
\* C23: every packet the writer's tx task dequeues is appended to the tail of
\* rx_packets, whether its send succeeded, failed or was skipped; then
\* rx_inflight is incremented and rx_work queued; the tx task lets go of a
\* packet in no other way and never runs its continuation or releases it.
C23_TxHandsEveryPacketToRx ==
    [][\A w \in WIDs :
          kind = "writer" =>
            /\ (tx[w].pkt # NULL /\ tx'[w].pkt # tx[w].pkt)
                 => /\ rx_packets'[w] = Append(rx_packets[w], tx[w].pkt)
                    /\ tx'[w].pc = "inc"
            /\ (tx[w].pc = "inc" /\ tx'[w].pc # "inc")
                 => /\ rx_inflight'[w] = rx_inflight[w] + 1
                    /\ rx_pending'[w]
            /\ tx'[w] # tx[w]
                 => \A p \in PIDs : /\ pkt'[p].handled = pkt[p].handled
                                    /\ pkt'[p].released = pkt[p].released
                                    /\ pkt'[p].error = pkt[p].error]_vars

\* A packet whose send was skipped waits in rx_packets behind one whose send
\* was tried, with rx_work queued.
C23_Witness ==
    \E w \in WIDs, p, q \in PIDs :
        /\ kind = "writer"
        /\ Len(rx_packets[w]) = 2
        /\ rx_packets[w][1] = q /\ rx_packets[w][2] = p
        /\ pkt[q].xmit = 1 /\ pkt[p].xmit = 0
        /\ F_RECOVER \in flags[w]
        /\ rx_inflight[w] = 2
        /\ rx_pending[w]

\* ------------------------------------------- the recovery writer --------
\* No request has been rewritten for the writer r yet.
Unused(r) == \A q \in PIDs : pkt[q].ext_id # wr[r].ext_id

\* C24: a recovery writer is created at the kernel_offset of the packet that
\* triggered it, with extent offset 0 and size 0, and that packet is the one
\* re-issued next; a packet re-issued to a recovery writer carries its
\* partition id, its extent id and ext_offset = kernel_offset - file_offset of
\* the recovery writer, which is 0 for the packet that triggered it.
C24_RecoveryWriterStartsAtPacket ==
    [][\A w \in WIDs :
          kind = "writer" =>
            /\ (rx[w].pc = "alloc" /\ recover'[w] # recover[w])
                 => /\ wr'[recover'[w]].file_offset
                          = pkt[rx[w].pkt].kernel_offset
                    /\ wr'[recover'[w]].ext_offset = 0
                    /\ wr'[recover'[w]].ext_size = 0
                    /\ rx'[w].pc = "reissue"
                    /\ rx'[w].pkt = rx[w].pkt
                    /\ \A q \in PIDs :
                         pkt'[q].ext_id # wr'[recover'[w]].ext_id
            /\ (rx[w].pc = "reissue" /\ rx'[w].pc \in {"handle", "fst"})
                 => LET p == rx[w].pkt
                        r == recover[w]
                    IN  /\ pkt'[p].pid = wr[r].dp
                        /\ pkt'[p].ext_id = wr[r].ext_id
                        /\ pkt'[p].ext_offset
                             = pkt[p].kernel_offset - wr[r].file_offset
                        /\ Unused(r) => pkt'[p].ext_offset = 0]_vars

\* The packet that triggered a recovery writer was re-issued to it at
\* ext_offset 0, and a later packet to the same recovery writer further in.
C24_Witness ==
    \E p, q \in PIDs :
        /\ kind = "writer"
        /\ pkt[p].private # pkt[p].w
        /\ pkt[q].private = pkt[p].private
        /\ pkt[p].ext_offset = 0
        /\ pkt[q].ext_offset > 0
        /\ pkt[p].kernel_offset > 0

\* C25: a writer that has a recovery writer re-issues every packet that
\* reaches extent_writer_recover to that recovery writer: the call goes
\* straight to the re-issue, the cap check and the allocation run only
\* without a recovery writer, a re-issue that succeeded leaves recover,
\* nr_writers and the writers allocated as they were, and the recovery
\* writer is only detached by a failed re-issue.
C25_RecoveryWriterIsReused ==
    [][\A w \in WIDs :
          kind = "writer" =>
            /\ rx[w].pc \in {"cap", "alloc"} => recover[w] = NULL
            /\ (recover[w] # NULL /\ rx[w].pc \in {"deq", "st"}
                  /\ rx'[w].pc \in {"cap", "alloc", "reissue"})
                 => rx'[w].pc = "reissue"
            /\ (rx[w].pc = "reissue" /\ rx'[w].pc = "handle")
                 => /\ pkt'[rx[w].pkt].private = recover[w]
                    /\ pkt'[rx[w].pkt].ext_id = wr[recover[w]].ext_id
                    /\ recover' = recover
                    /\ nr_writers' = nr_writers
                    /\ created' = created
                    /\ wr' = wr
            /\ (recover[w] # NULL /\ recover'[w] # recover[w])
                 => rx[w].pc = "fst"]_vars

\* Two packets of a writer in RECOVER were re-issued, each at its first
\* attempt, to the one recovery writer allocated for the first.
C25_Witness ==
    \E w \in WIDs, p, q \in PIDs :
        /\ kind = "writer"
        /\ p # q
        /\ pkt[p].w = w /\ pkt[q].w = w
        /\ F_RECOVER \in flags[w]
        /\ recover[w] # NULL
        /\ pkt[p].private = recover[w] /\ pkt[q].private = recover[w]
        /\ pkt[p].retry_count = 1 /\ pkt[q].retry_count = 1
        /\ nr_writers = NumWriters + 1

\* C26: a failed re-issue marks its recovery writer ERROR and detaches it from
\* the original writer; the next attempt allocates a writer that did not
\* exist before; and a writer's recovery pointer never refers to a writer
\* that has ERROR set.
C26_FailedRecoveryWriterIsNeverReferred ==
    [][\A w \in WIDs :
          kind = "writer" =>
            /\ (rx[w].pc = "fst" /\ rx'[w].pc # "fst")
                 => /\ recover[w] = rx[w].tgt
                    /\ F_ERROR \in flags'[rx[w].tgt]
                    /\ recover'[w] = NULL
            /\ (rx[w].pc = "alloc" /\ recover'[w] # recover[w])
                 => /\ recover'[w] > created
                    /\ F_ERROR \notin flags'[recover'[w]]
            /\ recover'[w] # NULL => F_ERROR \notin flags'[recover'[w]]]_vars

\* C27: the private field of a submitted packet changes only in the step in
\* which its re-issue succeeds, and that step sets it to the recovery writer
\* the request went to; the failing paths of extent_writer_recover and every
\* other step leave it as it was.
C27_PrivateSetOnSuccessfulReissueOnly ==
    [][kind = "writer" =>
         /\ \A p \in PIDs :
              (pkt[p].w # NULL /\ pkt'[p].private # pkt[p].private)
                => \E w \in WIDs :
                      /\ rx[w].pkt = p
                      /\ rx[w].pc = "reissue" /\ rx'[w].pc = "handle"
                      /\ pkt'[p].private = recover[w]
         /\ \A w \in WIDs :
              (rx[w].pc = "reissue" /\ rx'[w].pc = "handle")
                => /\ pkt'[rx[w].pkt].private = recover[w]
                   /\ pkt'[rx[w].pkt].private # pkt[rx[w].pkt].private]_vars

\* One packet was recovered and points at its recovery writer; another ran out
\* of retries and still points at the writer it was submitted to.
C27_Witness ==
    \E p, q \in PIDs :
        /\ kind = "writer"
        /\ pkt[p].w # NULL /\ pkt[p].private # pkt[p].w
        /\ pkt[p].error = OK /\ pkt[p].handled = 1
        /\ pkt[q].w # NULL /\ pkt[q].private = pkt[q].w
        /\ pkt[q].retry_count > REQUEST_RETRY_MAX
        /\ pkt[q].handled = 1

\* ------------------------------------------- what a flush persists ------
\* The flush made the call c.
Called(c) == \E i \in 1 .. Len(fl.calls) : fl.calls[i] = c

\* C28: after a successful cfs_extent_writer_flush the writer is clean, and a
\* flush of a clean writer, which is what a further flush with no submit in
\* between finds, makes no cache append and no meta append_extent call and
\* returns success.
C28_FlushPersistsOnce ==
    [][kind = "writer" =>
         /\ (fl.pc # "ret" /\ fl'.pc = "ret" /\ fl'.ret = OK)
              => ~wr'[fl'.w].dirty
         /\ (fl.pc = "idle" /\ fl'.pc # "idle" /\ ~wr[fl'.w].dirty)
              => (fl'.pc = "ret" /\ fl'.ret = OK /\ fl'.calls = <<>>)]_vars

\* C29: when the cache append or the meta append_extent fails, the flush
\* returns the error of the failed call, the writer stays dirty, and neither
\* remove_discard nor clear_dirty happens; these two happen only after a
\* successful meta append_extent.
C29_FailedPersistKeepsDirty ==
    [][(kind = "writer" /\ fl.pc = "persist" /\ fl'.pc = "ret") =>
         /\ fl'.res \in {"cache_err", "meta_err"}
              => /\ fl'.ret = fl'.err /\ fl'.ret # OK
                 /\ wr[fl.w].dirty /\ wr'[fl.w].dirty
                 /\ ~Called("remove_discard")' /\ ~Called("clear_dirty")'
         /\ fl'.res = "cache_err" => ~Called("meta_append_extent")'
         /\ (Called("remove_discard")' \/ Called("clear_dirty")'
               \/ ~wr'[fl.w].dirty)
              => /\ fl'.res = "ok"
                 /\ Called("meta_append_extent")'
                 /\ fl'.ret = OK]_vars

\* A flush whose meta append_extent failed returns that error and leaves the
\* writer dirty.
C29_Witness ==
    /\ kind = "writer"
    /\ fl.pc = "ret"
    /\ fl.res = "meta_err"
    /\ fl.ret = ENOMEM
    /\ Called("meta_append_extent")
    /\ wr[fl.w].dirty

\* C30: the flush reaches its persisting part only by seeing tx_inflight = 0
\* and then rx_inflight = 0; when it makes the cache append and the meta
\* append_extent, every packet whose submit to that writer returned before
\* the flush call has been handled and released; with ext_size 0 it makes
\* neither call.
C30_PersistOnlyAfterDrain ==
    [][kind = "writer" =>
         /\ (fl.pc \notin {"wait_rx", "sleep_rx"}
               /\ fl'.pc \in {"wait_rx", "sleep_rx"})
              => (fl.pc = "wait_tx" /\ tx_inflight[fl.w] = 0)
         /\ (fl.pc # "persist" /\ fl'.pc = "persist")
              => (fl.pc = "wait_rx" /\ rx_inflight[fl.w] = 0)
         /\ (fl.calls = <<>> /\ fl'.calls # <<>>)
              => /\ fl.pc = "persist"
                 /\ \A p \in PIDs :
                      (p <= fl.pre /\ pkt[p].w = fl.w)
                        => /\ pkt[p].handled = 1 /\ pkt[p].released = 1
                           /\ \A w \in WIDs :
                                /\ p \notin Range(tx_packets[w])
                                /\ p \notin Range(rx_packets[w])
                                /\ tx[w].pkt # p /\ rx[w].pkt # p
         /\ (fl.pc = "persist" /\ fl'.res = "empty")
              => ~Called("cache_append")' /\ ~Called("meta_append_extent")']_vars

\* A flush called after two submits had returned has issued the meta
\* append_extent.
C30_Witness ==
    /\ kind = "writer"
    /\ fl.pc = "ret"
    /\ fl.pre = MaxPackets
    /\ Called("meta_append_extent")
    /\ \A p \in PIDs : pkt[p].w = fl.w /\ pkt[p].handled = 1

\* ------------------------------------------------- the waiting flush ----
\* Nothing is left to run for the object w: no submit is under way, its tx
\* and rx work items are neither running nor queued.
Quiet(w) ==
    /\ sub.pc = "idle"
    /\ tx[w].pc = "idle" /\ ~tx_pending[w]
    /\ rx[w].pc = "idle" /\ ~rx_pending[w]

\* C31: a flush is never left waiting: whenever the submits have returned and
\* the object's tasks have run to their end, the flush is not asleep on a
\* wait queue and both counters it waits for are 0, so it goes on; with every
\* step of submit and of the tasks terminating, the flush stops waiting.
C31_FlushIsNeverLeftWaiting ==
    (fl.pc \in {"wait_tx", "sleep_tx", "wait_rx", "sleep_rx"} /\ Quiet(fl.w))
      => /\ fl.pc \in {"wait_tx", "wait_rx"}
         /\ tx_inflight[fl.w] = 0
         /\ rx_inflight[fl.w] = 0
         /\ tx_packets[fl.w] = <<>> /\ rx_packets[fl.w] = <<>>

\* A flush that has passed the wait for tx_inflight sleeps on rx_wq while the
\* rx task is handling a packet.
C31_Witness ==
    /\ fl.pc = "sleep_rx"
    /\ rx_inflight[fl.w] > 0
    /\ rx[fl.w].pc = "handle"

\* ------------------------------------------- nothing is left behind -----
\* C32: once no submit is under way and the tx and rx work items of a writer
\* or reader are neither running nor queued, its tx and rx queues are empty
\* and the continuation of every packet submitted to it has run; as every
\* step of the tasks terminates, every submitted packet is handled.
C32_NoPacketLeftBehind ==
    \A w \in WIDs :
        Quiet(w) =>
          /\ tx_packets[w] = <<>>
          /\ rx_packets[w] = <<>>
          /\ \A p \in PIDs :
               pkt[p].w = w => (pkt[p].handled = 1 /\ pkt[p].released = 1)

\* A submit has put a packet on tx_packets after the tx task found the queue
\* empty and before the task returned; the submit has yet to queue the work.
C32_Witness ==
    \E w \in WIDs :
        /\ tx[w].pc = "end"
        /\ Len(tx_packets[w]) = 1
        /\ sub.pc = "inc" /\ sub.w = w
        /\ tx[w].cnt = 1

\* --------------------------------------------- release and the tasks ----
\* The steps a release call has made are in the order of the code.
StepsInOrder(q) ==
    \A i, j \in 1 .. Len(q) :
        i < j => \E a, b \in 1 .. 6 :
                    /\ a < b
                    /\ q[i] = <<"recover", "cancel_tx", "cancel_rx", "dp",
                                "sock", "kfree">>[a]
                    /\ q[j] = <<"recover", "cancel_tx", "cancel_rx", "dp",
                                "sock", "kfree">>[b]

\* C33: a release makes its steps in the order recovery reader, cancel tx,
\* cancel rx, partition reference, session; from the moment it turns to the
\* partition reference and the session, neither work item of the released
\* writer or reader is running or queued, so no task of it sends or receives.
C33_TasksStoppedBeforeSessionRelease ==
    /\ StepsInOrder(rel.steps)
    /\ rel.pc \in {"dp", "sock", "kfree", "done"} =>
         /\ tx[rel.w].pc = "idle" /\ ~tx_pending[rel.w]
         /\ rx[rel.w].pc = "idle" /\ ~rx_pending[rel.w]

\* The release found work outstanding: it is through with the session while a
\* packet that the tx task had handed on is still on rx_packets.
C33_Witness ==
    /\ rel.pc = "done"
    /\ rx_packets[rel.w] # <<>>
    /\ tx_inflight[rel.w] = 0

\* ------------------------------------------------ the reader's flags ----
\* The rx task of reader w takes a packet off rx_packets in this step.
RxDequeues(w) == rx[w].pc = "deq" /\ rx'[w].pc \notin {"deq", "end"}

\* C34: in the reader pipeline the store after a send that failed with ENOMEM
\* puts ERROR into the flags and the store after any other failed send puts
\* RECOVER; a failure to create the recovery reader leads to a store of ERROR;
\* a packet the rx task dequeues after a store of ERROR gets EIO and goes to
\* its continuation, and one dequeued with only RECOVER set goes to recovery.
C34_ReaderFlagsDecideThePath ==
    [][kind = "reader" =>
         \A w \in WIDs :
            /\ (tx[w].pc = "st" /\ tx'[w].pc = "enq") =>
                  IF tx[w].ret = ENOMEM THEN F_ERROR \in flags'[w]
                  ELSE F_RECOVER \in flags'[w]
            /\ (rx[w].pc = "rrec" /\ rx'[w].pc = "st") =>
                  rx'[w].set = F_ERROR
            /\ (RxDequeues(w) /\ ever_error[w]) =>
                  /\ rx'[w].pc = "handle"
                  /\ pkt'[rx'[w].pkt].error = EIO
            /\ (RxDequeues(w) /\ ~ever_error[w] /\ F_RECOVER \in flags[w]) =>
                  rx'[w].pc = "rrec"]_vars

\* ------------------------------------------------------- module load ----
\* The first n steps of cfs_init.
FirstSteps(n) == {InitSteps[i] : i \in 1 .. n}

\* C35: cfs_init makes its steps in the order socket, rdma, packet, extent,
\* filesystem, page, filesystem type, global log, each one only when all
\* earlier ones succeeded; when a step fails cfs_init returns the error with
\* nothing left set up or registered.
C35_InitInOrderAndUndoneOnFailure ==
    /\ core.pc = "init" => core.up = FirstSteps(core.step - 1)
    /\ core.pc = "loaded" => core.up = FirstSteps(Len(InitSteps))
    /\ core.pc = "failed" => (core.ret # OK /\ core.up = {})

\* ------------------------------------------------ the inflight counters --
\* C36: tx_inflight and rx_inflight of every writer and reader are never
\* negative.
C36_InflightNeverNegative ==
    \A w \in WIDs : tx_inflight[w] >= 0 /\ rx_inflight[w] >= 0

\* ------------------------------------------------- dirty and the flush --
\* C37: a flush clears the dirty mark of a writer only when every request
\* that marked the writer dirty has had its packet through the pipeline, so
\* that its bytes can be in the extent the flush persisted.
C37_FlushClearsOnlyPersistedSubmissions ==
    [][\A w \in WIDs :
          (kind = "writer" /\ wr[w].dirty /\ ~wr'[w].dirty) =>
             \A p \in PIDs : pkt[p].w = w => pkt[p].handled = 1]_vars

\* ------------------------------------------- a failed writer recovery ---
\* The rx task of writer w leaves extent_writer_recover with an error in this
\* step.
RecoverReturnsError(w) ==
    /\ rx[w].pc \in {"cap", "alloc", "reissue", "fst"}
    /\ rx'[w].pc \notin {"cap", "alloc", "reissue", "fst"}
    /\ rx'[w].ret # OK

\* C38: when extent_writer_recover returns an error, whatever the reason, the
\* rx task goes on to store ERROR into the flags of its own writer, and every
\* packet that writer's rx task dequeues after the store gets EIO and goes to
\* its continuation without a receive or a recovery attempt.
C38_FailedRecoveryIsTerminal ==
    [][\A w \in WIDs :
          kind = "writer" =>
             /\ RecoverReturnsError(w) =>
                  (rx'[w].pc = "st" /\ rx'[w].set = F_ERROR /\ rx'[w].tgt = w)
             /\ (rx[w].pc = "st" /\ rx[w].set = F_ERROR /\ rx'[w].pc # "st") =>
                  F_ERROR \in flags'[rx[w].tgt]
             /\ (RxDequeues(w) /\ ever_error[w]) =>
                  /\ rx'[w].pc = "handle"
                  /\ pkt'[rx'[w].pkt].error = EIO]_vars

\* ------------------------------------------ offsets of re-issued packets
\* C39: a packet that writer recovery is about to re-issue, or has re-issued,
\* lies at or after the start of the recovery writer it goes to, so the
\* extent offset written into its header is not negative.
C39_ReissuedPacketNotBeforeRecoveryWriter ==
    /\ \A w \in WIDs :
         (kind = "writer" /\ rx[w].pc = "reissue") =>
            /\ recover[w] # NULL
            /\ pkt[rx[w].pkt].kernel_offset >= wr[recover[w]].file_offset
    /\ \A p \in PIDs : pkt[p].ext_offset >= 0

\* The second packet of a writer is about to be re-issued to the replacement
\* of a recovery writer that failed for the first packet.
C39_Witness ==
    \E w \in WIDs :
        /\ kind = "writer"
        /\ rx[w].pc = "reissue"
        /\ pkt[rx[w].pkt].kernel_offset > wr[recover[w]].file_offset
        /\ \E r \in WIDs : r # recover[w] /\ r > NumWriters
                             /\ F_ERROR \in flags[r]
                             /\ wr[r].file_offset = wr[recover[w]].file_offset

\* ------------------------------------------------ reading a directory ---
\* The reading of the opened directory is over: no call is running, the meta
\* service has delivered its last batch and no buffered entry is left to emit.
IterationOver ==
    /\ vfs.cfi.pc = "idle"
    /\ vfs.cfi.done
    /\ vfs.cfi.denties_offset >= vfs.cfi.num

\* C40: over the cfs_iterate_dir calls on one open directory the entries are
\* emitted in the order the meta service returned them, each one following
\* the entry emitted before it, and when the reading is over every entry
\* that was returned has been emitted.
C40_EveryDentryEmittedOnceInOrder ==
    /\ vfs.cfi.in_order
    /\ IterationOver => vfs.cfi.emitted = vfs.cfi.fetched
====
